---------------------------- MODULE Spec2Model ----------------------------
(***************************************************************************)
(* Slack -> GitHub issue relay: the interactivity webhook                  *)
(* (src/src/app/api/slack/interactivity/route.ts), its signature check     *)
(* (src/src/lib/slack/verify.ts) and the attachment pipeline               *)
(* (src/src/lib/github/uploadAsset.ts, src/src/lib/slack/downloadFile.ts). *)
(*                                                                         *)
(* Conventions.                                                            *)
(*  - A JS object is a TLA+ record; a property that is undefined is a key  *)
(*    that is not in the record's DOMAIN.                                  *)
(*  - Strings are TLA+ strings (Len and \o are the JS length and +);       *)
(*    header values whose characters the code inspects (the timestamp)     *)
(*    are sequences of one-character strings.                              *)
(*  - HMAC-SHA256 is an ideal keyed hash: the digest determines (key,      *)
(*    message) and nothing else produces it.                               *)
(***************************************************************************)
EXTENDS Integers, Sequences, FiniteSets, TLC

VARIABLES
    vTs,        \* verify harness: x-slack-request-timestamp header
    vSig,       \* verify harness: x-slack-signature header
    vBody,      \* verify harness: raw request body
    vOut,       \* verify harness: outcome of verifySlackRequest, or "none"
    cIn,        \* compose harness: the input of the function applied
    cMeta,      \* compose harness: the private_metadata of the modal opened
    cOut,       \* compose harness: the result of the function applied
    cRes,       \* compose harness: what the submission of part_001 ended with
    dl,         \* download harness: the state of one call of downloadSlackFile
    message,    \* the message of the channel the action is invoked on
    env,        \* process.env of the deployment
    pc,         \* per request: where its handler stands
    req,        \* per request: what verifySlackRequest settles to, the payload
    response,   \* per request: the HTTP response, once produced
    calls,      \* per request: the outbound calls made so far, in order
    modals,     \* private_metadata of the modals Slack has open
    idx,        \* handleSubmit: number of files of meta.files already handled
    fileInfo,   \* handleSubmit: fileInfo of the file being handled
    downloadUrl,    \* downloadSlackFile: downloadUrl of the file being handled
    uploadedFiles,  \* handleSubmit: uploadedFiles
    uploadErrors    \* handleSubmit: uploadErrors

verifyVars == <<vTs, vSig, vBody, vOut>>

composeVars == <<cIn, cMeta, cOut, cRes>>

downloadVars == <<dl>>

flowVars ==
    <<message, env, pc, req, response, calls, modals, idx, fileInfo, downloadUrl,
      uploadedFiles, uploadErrors>>

vars == <<verifyVars, composeVars, downloadVars, flowVars>>

(***************************************************************************)
(* Bounds of the model and the environment                                 *)
(***************************************************************************)
\* Date.now()/1000 at the time of the check (the clock is frozen in a run).
NOW == 1000

\* process.env.SLACK_SIGNING_SECRET and a key the sender may use instead.
SLACK_SIGNING_SECRET == "signing-secret"
OtherSecret == "other-secret"

(***************************************************************************)
(* JS values                                                               *)
(***************************************************************************)
\* A header value: a string known by its length and its content (for the
\* timestamp the content is its sequence of characters).
Str(len, val) == [len |-> len, val |-> val]

Chars(cs) == Str(Len(cs), cs)

\* headers.get() of a header that is not there.
Null == Str(0, <<"null">>)

EmptyString == Str(0, <<>>)

\* !x of a header value: null and "" are falsy.
Falsy(x) == x = Null \/ x = EmptyString

\* Number(s) is NaN.
NaN == [nan |-> TRUE, val |-> 0]

Num(n) == [nan |-> FALSE, val |-> n]

Digits == <<"0", "1", "2", "3", "4", "5", "6", "7", "8", "9">>

IsDigit(c) == \E i \in 1..10 : Digits[i] = c

DigitVal(c) == (CHOOSE i \in 1..10 : Digits[i] = c) - 1

\* The decimal string of a natural number, as a sequence of characters.
RECURSIVE ToDigits(_)
ToDigits(n) ==
    IF n < 10 THEN <<Digits[n + 1]>>
    ELSE Append(ToDigits(n \div 10), Digits[(n % 10) + 1])

RECURSIVE DecimalValue(_)
DecimalValue(s) ==
    IF s = <<>> THEN 0
    ELSE 10 * DecimalValue(SubSeq(s, 1, Len(s) - 1)) + DigitVal(s[Len(s)])

\* Number(ts) of verify.ts:10 on a header string: the decimal value of a
\* string of digits, 0 for the empty string, NaN for a string with any
\* other character.
Number(s) ==
    IF \A i \in 1..Len(s.val) : IsDigit(s.val[i])
    THEN Num(DecimalValue(s.val)) ELSE NaN

Abs(n) == IF n < 0 THEN 0 - n ELSE n

\* a - b and Math.abs on JS numbers: NaN is absorbing.
JsSub(a, b) == IF a.nan \/ b.nan THEN NaN ELSE Num(a.val - b.val)

JsAbs(a) == IF a.nan THEN NaN ELSE Num(Abs(a.val))

\* a > b on JS numbers: every comparison with NaN is false.
JsGreater(a, b) == ~a.nan /\ ~b.nan /\ a.val > b.val

(***************************************************************************)
(* src/src/lib/slack/verify.ts                                             *)
(***************************************************************************)
\* 60 * 5 of verify.ts:10.
ReplayWindow == 60 * 5

\* Length of the hex digest of SHA-256.
HexLen == 64

\* The base string v0:{ts}:{rawBody} (the parts kept apart: concatenation of these
\* inputs is taken to be unambiguous).
BaseString(ts, rawBody) == <<"v0:", ts, ":", rawBody>>

\* crypto.createHmac("sha256", secret).update(base).digest("hex")
Hmac(secret, base) == <<"hmac-sha256", secret, base>>

\* "v0=" + hmac
ExpectedSignature(secret, ts, rawBody) ==
    Str(3 + HexLen, <<"v0=", Hmac(secret, BaseString(ts, rawBody))>>)

\* crypto.timingSafeEqual(a, b): throws a RangeError when the byte lengths
\* differ, else compares the contents.
TimingSafeEqual(a, b) ==
    IF a.len # b.len THEN "throw"
    ELSE IF a = b THEN "true" ELSE "false"

\* verifySlackRequest without the length guard of verify.ts:20 (not the
\* code's).
verifyNoLengthGuard(ts, sig, rawBody) ==
    IF Falsy(ts) \/ Falsy(sig) THEN "false"
    ELSE IF JsGreater(JsAbs(JsSub(Num(NOW), Number(ts))), Num(ReplayWindow))
    THEN "false"
    ELSE TimingSafeEqual(ExpectedSignature(SLACK_SIGNING_SECRET, ts, rawBody), sig)

\* The value the promise returned by verifySlackRequest settles to:
\* "true" / "false" when it resolves, "throw" when it rejects.
verifySlackRequest(ts, sig, rawBody) ==
    IF Falsy(ts) \/ Falsy(sig) THEN "false"
    ELSE IF JsGreater(JsAbs(JsSub(Num(NOW), Number(ts))), Num(ReplayWindow))
    THEN "false"
    ELSE LET expected == ExpectedSignature(SLACK_SIGNING_SECRET, ts, rawBody)
         IN  IF expected.len # sig.len THEN "false"
             ELSE TimingSafeEqual(expected, sig)

(***************************************************************************)
(* Strings and JS objects                                                  *)
(***************************************************************************)
\* s repeated n times.
RECURSIVE Rep(_, _)
Rep(s, n) ==
    IF n = 0 THEN ""
    ELSE IF n % 2 = 0 THEN LET h == Rep(s, n \div 2) IN h \o h
    ELSE s \o Rep(s, n - 1)

\* parts.join(sep)
RECURSIVE Join(_, _)
Join(parts, sep) ==
    IF parts = <<>> THEN ""
    ELSE IF Len(parts) = 1 THEN parts[1]
    ELSE parts[1] \o sep \o Join(Tail(parts), sep)

\* String(n) of a natural number.
IntStr(n) == Join(ToDigits(n), "")

\* obj.key is neither undefined nor "" (a string property that is truthy).
Has(obj, key) == key \in DOMAIN obj /\ obj[key] # ""

\* obj.key ?? dflt
Coalesce(obj, key, dflt) == IF key \in DOMAIN obj THEN obj[key] ELSE dflt

\* { k1: obj.k1, ... } as JSON.stringify keeps it: the keys whose value is
\* not undefined.
Pick(obj, keys) == [k \in (keys \cap DOMAIN obj) |-> obj[k]]

\* A multi-line string is the sequence of its lines (s.split("\n")); the
\* concatenation a + b joins the last line of a with the first of b.  The
\* operands are bound once, so that nested concatenations are evaluated
\* once each.
Concat(a, b) ==
    CHOOSE joined \in
        { SubSeq(p[1], 1, Len(p[1]) - 1) \o <<p[1][Len(p[1])] \o p[2][1]>>
              \o Tail(p[2]) : p \in {<<a, b>>} } : TRUE

\* s.trim() on a multi-line string: the empty lines at both ends go.
RECURSIVE TrimStart(_)
TrimStart(a) ==
    IF Len(a) > 1 /\ a[1] = "" THEN TrimStart(Tail(a)) ELSE a

RECURSIVE TrimEnd(_)
TrimEnd(a) ==
    IF Len(a) > 1 /\ a[Len(a)] = "" THEN TrimEnd(SubSeq(a, 1, Len(a) - 1))
    ELSE a

\* The last line without the white space at its end; of the lines of the
\* model only the quotation of an empty line ends in white space.
StripEnd(l) == IF l = "> " THEN ">" ELSE l

Trim(a) ==
    CHOOSE trimmed \in
        { [t EXCEPT ![Len(t)] = StripEnd(@)] : t \in {TrimEnd(TrimStart(a))} } : TRUE

(***************************************************************************)
(* The chat platform and the inbound payloads                              *)
(***************************************************************************)
\* 10 * 1024 * 1024 of uploadAsset.ts:39
MAX_FILE_SIZE == 10 * 1024 * 1024

ImagePng == "image/png"
Pdf == "application/pdf"
Xlsx == "application/vnd.openxmlformats-officedocument.spreadsheetml.sheet"
Xls == "application/vnd.ms-excel"
Zip == "application/zip"
OctetStream == "application/octet-stream"

\* The file objects the chat platform holds, as files.info returns them.
SlackFiles ==
    { [id |-> "F1", name |-> "img.png", mimetype |-> ImagePng,
       url_private_download |-> "https://files.slack.com/files-pri/T1-F1/download/img.png",
       url_private |-> "https://files.slack.com/files-pri/T1-F1/img.png",
       size |-> 2048],
      [id |-> "F2", name |-> "big.pdf", mimetype |-> Pdf,
       url_private_download |-> "https://files.slack.com/files-pri/T1-F2/download/big.pdf",
       url_private |-> "https://files.slack.com/files-pri/T1-F2/big.pdf",
       size |-> 2 * MAX_FILE_SIZE],
      [id |-> "F3", name |-> "a.zip", mimetype |-> Zip,
       url_private_download |-> "https://files.slack.com/files-pri/T1-F3/download/a.zip",
       url_private |-> "https://files.slack.com/files-pri/T1-F3/a.zip",
       size |-> 512],
      [id |-> "F4", name |-> "gone.png", mimetype |-> ImagePng, size |-> 100] }

SlackFile(id) == CHOOSE f \in SlackFiles : f.id = id

\* The platform's file whose download URL is url.
FileAtUrl(url) ==
    CHOOSE f \in SlackFiles :
        \/ Has(f, "url_private_download") /\ f.url_private_download = url
        \/ Has(f, "url_private") /\ f.url_private = url

\* A file as message.files[] of a payload carries it: the whole object, the
\* object without its mimetype, or the id alone.
PayloadFiles ==
    {f \in SlackFiles : Has(f, "url_private")}
        \cup {Pick(SlackFile("F1"), {"id", "name", "url_private_download"})}
        \cup {[id |-> "F4"]}

\* Most files a message of the model carries.
MaxFiles == 2

\* Length of a message text that leaves room for a file list without URLs.
MidTextLen == 2800

\* Length of a message text that leaves room for no file with a mimetype.
LongTextLen == 2900

\* message.text, as its lines.
Texts ==
    {<<"hello", "world">>, <<Rep("x", MidTextLen)>>, <<Rep("x", LongTextLen)>>}

FileLists == UNION {[1..n -> PayloadFiles] : n \in 0..MaxFiles}

\* Most files a message with one of the long texts carries.
MaxFilesLongText == 1

\* The messages of the model: the short text with every file list, the long
\* texts with the shorter ones.
Messages ==
    {m \in {[text |-> t, files |-> fs] : t \in Texts, fs \in FileLists} :
        Len(m.text) = 1 => Len(m.files) <= MaxFilesLongText}

Issues == {"12", "34"}

\* The requests of a run, in the order in which they arrive.
Req == {"r1", "r2"}

Arrived(r) == r = "r1" \/ pc["r1"] # "idle"

MessageActionPayload(r, msg) ==
    [type |-> "message_action", trigger_id |-> "trigger-" \o r,
     message |-> msg,
     user |-> [id |-> "U1", username |-> "alice"],
     channel |-> [id |-> "C1", name |-> "general"]]

\* view.state.values.issue.issue_select.selected_option.value and
\* view.private_metadata of a view_submission.
ViewSubmissionPayload(issue, meta) ==
    [type |-> "view_submission", selected |-> issue, private_metadata |-> meta]

(***************************************************************************)
(* JSON.stringify of the modal metadata                                    *)
(***************************************************************************)
JsonString(s) == "\"" \o s \o "\""

JsonMember(key, json) == JsonString(key) \o ":" \o json

\* A text of several lines: each line break is the two characters \n.
JsonText(lines) == JsonString(Join(lines, "\\n"))

\* The order in which route.ts:98-104 writes the keys of a file.
FileKeys == <<"id", "name", "mimetype", "url_private_download", "url_private">>

JsonFile(f) ==
    LET present == SelectSeq(FileKeys, LAMBDA k : k \in DOMAIN f)
    IN  "{" \o Join([i \in 1..Len(present) |->
                        JsonMember(present[i], JsonString(f[present[i]]))], ",")
            \o "}"

JsonFiles(fs) == "[" \o Join([i \in 1..Len(fs) |-> JsonFile(fs[i])], ",") \o "]"

\* JSON.stringify(meta) of route.ts:113 and :134
JsonStringifyMeta(meta) ==
    "{" \o Join(<<JsonMember("text", JsonText(meta.text)),
                  JsonMember("user", JsonString(meta.user)),
                  JsonMember("channel", JsonString(meta.channel)),
                  JsonMember("files", JsonFiles(meta.files))>>, ",") \o "}"

(***************************************************************************)
(* src/src/lib/github/formatAttachments.ts and formatIssueComment of       *)
(* src/src/app/api/slack/interactivity/route.ts.  The Japanese headings    *)
(* are written in ASCII.                                                   *)
(***************************************************************************)
\* "### 添付ファイル"
AttachmentsHeading == "### Attachments"

\* "### ⚠️ アップロードできなかったファイル"
ErrorsHeading == "### Files that could not be uploaded"

\* "## Slackから共有 🧵"
CommentTitle == "## Shared from Slack"

\* "> （本文なし）"
NoTextPlaceholder == "> (no text)"

\* mimetype.startsWith("image/"), on the MIME types of the model.
StartsWithImage(mimetype) == mimetype \in {ImagePng, "image/jpeg", "image/gif"}

\* filename.match(/\.(xlsx|xls|csv)$/i), on the file names of the model.
SpreadsheetName(filename) == filename \in {"book.xlsx", "book.xls", "data.csv"}

\* A rendering that links every file, images too (not the code's).
AttachmentLineAlwaysLink(f) == "[file] [" \o f.filename \o "](" \o f.url \o ")"

\* formatAttachments.ts:21-42
AttachmentLine(f) ==
    IF StartsWithImage(f.mimetype)
    THEN "![" \o f.filename \o "](" \o f.url \o ")"
    ELSE IF f.mimetype = Pdf
    THEN "[pdf] [" \o f.filename \o "](" \o f.url \o ")"
    ELSE IF f.mimetype \in {Xlsx, Xls, "text/csv"} \/ SpreadsheetName(f.filename)
    THEN "[sheet] [" \o f.filename \o "](" \o f.url \o ")"
    ELSE "[file] [" \o f.filename \o "](" \o f.url \o ")"

\* formatAttachments.ts:18-48
formatAttachments(files) ==
    IF Len(files) = 0 THEN <<"">>
    ELSE <<"", AttachmentsHeading>>
            \o [i \in 1..Len(files) |-> AttachmentLine(files[i])] \o <<"">>

\* route.ts:269-271 (the backquotes around the name written as quotes)
ErrorLine(e) == "- '" \o e.filename \o "': " \o e.reason

\* A section that reports only the first failure (not the code's).
ErrorSectionFirstOnly(errors) ==
    IF Len(errors) > 0
    THEN <<"", ErrorsHeading, ErrorLine(errors[1]), "">>
    ELSE <<"">>

\* route.ts:267-276
ErrorSection(errors) ==
    IF Len(errors) > 0
    THEN <<"", ErrorsHeading>>
            \o [i \in 1..Len(errors) |-> ErrorLine(errors[i])] \o <<"">>
    ELSE <<"">>

\* A quotation that loses the order of the lines (not the code's).
QuotedBackwards(text) == [i \in 1..Len(text) |-> "> " \o text[Len(text) + 1 - i]]

\* route.ts:262-265; the joined string is "" only if there is no line,
\* and text.split("\n") always yields one.
Quoted(text) == [i \in 1..Len(text) |-> "> " \o text[i]]

\* route.ts:249-288; the labels of the author and channel lines are
\* written in ASCII.
formatIssueComment(text, user, channel, attachments, errors) ==
    LET quoted == Quoted(text)
        body == IF quoted = <<"">> THEN <<NoTextPlaceholder>> ELSE quoted
        head == <<"", CommentTitle, "", "**Author**: @" \o user \o "  ",
                  "**Channel**: #" \o channel, "", "">>
        nl == <<"", "">>
    IN  Trim(Concat(Concat(Concat(Concat(Concat(Concat(
            head, body), nl), attachments), nl), ErrorSection(errors)), nl))

\* The comment has a line equal to l.
HasLine(comment, l) == \E i \in 1..Len(comment) : comment[i] = l

(***************************************************************************)
(* openIssueSelectModal of route.ts                                        *)
(***************************************************************************)
\* The limit of route.ts:116 on private_metadata.
PrivateMetadataLimit == 3000

MessageFiles(payload) == Coalesce(payload.message, "files", <<>>)

\* route.ts:98-104
ProjectedFiles(payload) ==
    [i \in 1..Len(MessageFiles(payload)) |->
        Pick(MessageFiles(payload)[i],
             {"id", "name", "mimetype", "url_private_download", "url_private"})]

\* route.ts:119-125
MinimalFiles(payload) ==
    [i \in 1..Len(MessageFiles(payload)) |->
        Pick(MessageFiles(payload)[i], {"id", "name", "mimetype"})]

\* route.ts:106-111
BuildMeta(payload) ==
    [text |-> Coalesce(payload.message, "text", <<"">>),
     user |-> Coalesce(payload.user, "username", payload.user.id),
     channel |-> Coalesce(payload.channel, "name", payload.channel.id),
     files |-> ProjectedFiles(payload)]

\* route.ts:113-127: the meta that is serialised into private_metadata.
ModalMetadata(payload) ==
    LET meta == BuildMeta(payload)
    IN  IF Len(JsonStringifyMeta(meta)) > PrivateMetadataLimit
        THEN [meta EXCEPT !.files = MinimalFiles(payload)]
        ELSE meta

(***************************************************************************)
(* src/src/lib/github/uploadAsset.ts and src/src/lib/slack/downloadFile.ts *)
(***************************************************************************)
\* process.env with every variable the code reads set.
Env ==
    [SLACK_BOT_TOKEN |-> "xoxb-bot-token", GITHUB_OWNER |-> "acme",
     GITHUB_REPO |-> "tracker", GITHUB_TOKEN |-> "ghp-token"]

\* obj with one property deleted.
Without(obj, key) == [k \in DOMAIN obj \ {key} |-> obj[k]]

\* The configurations of a deployment: complete, or with one variable unset.
Envs ==
    {Env, Without(Env, "SLACK_BOT_TOKEN"), Without(Env, "GITHUB_OWNER"),
     Without(Env, "GITHUB_TOKEN")}

\* postIssueComment (issue.ts:38-44) has the three variables it needs.
GitHubConfigured ==
    Has(env, "GITHUB_OWNER") /\ Has(env, "GITHUB_REPO") /\ Has(env, "GITHUB_TOKEN")

\* A type gate that lets every MIME type through (not the code's).
isSupportedFileTypeAny(mimetype) == mimetype = mimetype

\* uploadAsset.ts:44-62
isSupportedFileType(mimetype) ==
    \/ StartsWithImage(mimetype)
    \/ mimetype = Pdf
    \/ mimetype = Xlsx \/ mimetype = Xls

\* (size / 1024 / 1024).toFixed(2)
FormatMB(size) ==
    LET h == (size * 100 + 524288) \div 1048576
    IN  IntStr(h \div 100) \o "." \o IntStr((h % 100) \div 10) \o IntStr(h % 10)

SizeReason(size) == "File size exceeds 10MB limit: " \o FormatMB(size) \o "MB"

UploadError(filename, reason) ==
    [kind |-> "error", filename |-> filename, reason |-> reason]

\* file.size && file.size > MAX_FILE_SIZE
DeclaredTooLarge(file) ==
    "size" \in DOMAIN file /\ file.size # 0 /\ file.size > MAX_FILE_SIZE

\* uploadAsset.ts:117-118
EngineFilename(file) == Coalesce(file, "name", "file")

EngineMimetype(file) == Coalesce(file, "mimetype", OctetStream)

\* downloadFile.ts:58: the file has neither URL but has an id.
NeedsLookup(file) ==
    ~Has(file, "url_private_download") /\ ~Has(file, "url_private")
        /\ Has(file, "id")

\* downloadFile.ts:65: fileInfo.url_private_download ?? fileInfo.url_private
DownloadUrl(file) ==
    IF "url_private_download" \in DOMAIN file THEN file.url_private_download
    ELSE Coalesce(file, "url_private", "")

\* encodeURIComponent of slack_files/{issueNumber}/{timestamp}_{randomPrefix}_{filename}
\* for one value of Date.now() and Math.random().
EncodedPath(issueNumber, filename) ==
    "slack_files%2F" \o issueNumber \o "%2F" \o "1700000000000_k3j9x2ab_"
        \o filename

\* uploadAsset.ts:170
PreviewUrl(issueNumber, filename) ==
    "https://github.com/" \o env.GITHUB_OWNER \o "/" \o env.GITHUB_REPO
        \o "/raw/main/" \o EncodedPath(issueNumber, filename)

(***************************************************************************)
(* The webhook: POST and handleSubmit of route.ts                          *)
(***************************************************************************)
NoRequest == [verdict |-> "none", payload |-> <<>>]

NoResponse == [status |-> 0, body |-> "none"]

NoFile == <<>>

\* The compose harness at rest.
NoInput == [none |-> TRUE]

InitComposeIdle ==
    cIn = NoInput /\ cMeta = NoInput /\ cOut = NoInput /\ cRes = NoInput

InitDownloadIdle == dl = NoInput

\* The value undefined where a file descriptor is expected.
Undefined == [undefined |-> TRUE]

\* What callSlackApi("files.info") comes to: the file, a response with
\* ok: true that carries no file, or an exception.
LookupAnswers == {"file", "empty", "error"}

\* fileResponse.file of a lookup that did not throw (route.ts:191,
\* downloadFile.ts:61).
ResponseFile(answer, id) == IF answer = "file" THEN SlackFile(id) ELSE Undefined

\* The message of the TypeError a property read of undefined throws.
TypeErrorReading(key) ==
    "Cannot read properties of undefined (reading '" \o key \o "')"

InitRequests ==
    /\ pc = [r \in Req |-> "idle"]
    /\ req = [r \in Req |-> NoRequest]
    /\ response = [r \in Req |-> NoResponse]
    /\ calls = [r \in Req |-> <<>>]
    /\ modals = {}
    /\ idx = [r \in Req |-> 0]
    /\ fileInfo = [r \in Req |-> NoFile]
    /\ downloadUrl = [r \in Req |-> ""]
    /\ uploadedFiles = [r \in Req |-> <<>>]
    /\ uploadErrors = [r \in Req |-> <<>>]

\* The request bodies that can arrive: a payload of one of the types the
\* platform sends (a message_action on the message of the channel, a
\* view_submission that echoes the private_metadata of a modal that is
\* open, another type), or a body with no payload field.
Bodies(r) ==
    {[payload |-> MessageActionPayload(r, message)]}
        \cup {[payload |-> ViewSubmissionPayload(i, meta)] :
                i \in Issues, meta \in modals}
        \cup {[payload |-> [type |-> "block_actions"]], [ssl_check |-> "1"]}

FreshTs == Chars(ToDigits(NOW))

StaleTs == Chars(ToDigits(NOW - ReplayWindow - 1))

\* The headers a request can carry: signed by the platform just now, or
\* defective in one of the ways verifySlackRequest tells apart.
HeaderCases(body) ==
    { [ts |-> FreshTs, sig |-> ExpectedSignature(SLACK_SIGNING_SECRET, FreshTs, body)],
      [ts |-> FreshTs, sig |-> Null],
      [ts |-> Null, sig |-> ExpectedSignature(SLACK_SIGNING_SECRET, FreshTs, body)],
      [ts |-> StaleTs, sig |-> ExpectedSignature(SLACK_SIGNING_SECRET, StaleTs, body)],
      [ts |-> FreshTs, sig |-> Str(3, <<"v0=">>)],
      [ts |-> FreshTs, sig |-> ExpectedSignature(OtherSecret, FreshTs, body)] }

\* JSON.parse(params.get("payload") || "{}") of route.ts:62-63
ParsePayload(body) == IF "payload" \in DOMAIN body THEN body.payload ELSE <<>>

\* An async function returns a Promise whatever it settles to.
AsyncCall(settlesTo) == [promise |-> settlesTo]

\* !x of a JS value: an object, a Promise included, is truthy.
JsNot(x) == IF "promise" \in DOMAIN x THEN FALSE ELSE ~x.value

\* route.ts:58: if (!verifySlackRequest(req, rawBody)), not awaited.
SignatureGateRejects(ts, sig, rawBody) ==
    JsNot(AsyncCall(verifySlackRequest(ts, sig, rawBody)))

MetaOf(r) == req[r].payload.private_metadata

\* route.ts:170
SlackFilesOf(r) == Coalesce(MetaOf(r), "files", <<>>)

\* route.ts:162-163
IssueOf(r) == req[r].payload.selected

Log(r, call) == calls' = [calls EXCEPT ![r] = Append(@, call)]

Respond(r, resp) == response' = [response EXCEPT ![r] = resp]

SubmitVars == <<idx, fileInfo, downloadUrl, uploadedFiles, uploadErrors>>

\* route.ts:59
Reject(r) ==
    /\ Respond(r, [status |-> 401, body |-> "invalid signature"])
    /\ pc' = [pc EXCEPT ![r] = "done"]
    /\ UNCHANGED <<calls, modals, SubmitVars>>

\* A handler that calls views.open again with the same trigger_id when the
\* first call failed (not the code's).
OnMessageActionRetries(r, payload) ==
    LET meta == ModalMetadata(payload)
        length == Len(JsonStringifyMeta(meta))
        Call(ok) == [api |-> "views.open", trigger_id |-> payload.trigger_id,
                     private_metadata |-> meta, length |-> length, ok |-> ok]
    IN  \E ok \in BOOLEAN :
            /\ ok => (length <= PrivateMetadataLimit /\ Has(env, "SLACK_BOT_TOKEN"))
            /\ calls' = [calls EXCEPT ![r] =
                            IF ok THEN Append(@, Call(TRUE))
                            ELSE Append(Append(@, Call(FALSE)), Call(FALSE))]
            /\ modals' = IF ok THEN modals \cup {meta} ELSE modals
            /\ Respond(r, IF ok THEN [status |-> 200, body |-> ""]
                          ELSE [status |-> 500, body |-> "Internal Server Error"])
            /\ pc' = [pc EXCEPT ![r] = "done"]
            /\ UNCHANGED SubmitVars

\* route.ts:66-69 with openIssueSelectModal (96-156): views.open is awaited;
\* the platform refuses a private_metadata over its limit, and a call that
\* fails throws out of POST.
OnMessageAction(r, payload) ==
    LET meta == ModalMetadata(payload)
        length == Len(JsonStringifyMeta(meta))
    IN  \E ok \in BOOLEAN :
            /\ ok => (length <= PrivateMetadataLimit /\ Has(env, "SLACK_BOT_TOKEN"))
            /\ Log(r, [api |-> "views.open", trigger_id |-> payload.trigger_id,
                       private_metadata |-> meta, length |-> length, ok |-> ok])
            /\ modals' = IF ok THEN modals \cup {meta} ELSE modals
            /\ Respond(r, IF ok THEN [status |-> 200, body |-> ""]
                          ELSE [status |-> 500, body |-> "Internal Server Error"])
            /\ pc' = [pc EXCEPT ![r] = "done"]
            /\ UNCHANGED SubmitVars

\* route.ts:72-89: handleSubmit is started and not awaited; the response is
\* returned at once.
OnViewSubmission(r, payload) ==
    /\ Respond(r, [status |-> 200, body |-> "json", response_action |-> "clear"])
    /\ pc' = [pc EXCEPT ![r] =
                IF Len(Coalesce(payload.private_metadata, "files", <<>>)) = 0
                THEN "post" ELSE "resolve"]
    /\ UNCHANGED <<calls, modals, SubmitVars>>

\* A default branch that reports the request to Slack before it answers
\* (not the code's).
AckNotifies(r) ==
    /\ Respond(r, [status |-> 200, body |-> ""])
    /\ Log(r, [api |-> "chat.postMessage", ok |-> TRUE])
    /\ pc' = [pc EXCEPT ![r] = "done"]
    /\ UNCHANGED <<modals, SubmitVars>>

\* route.ts:91
Ack(r) ==
    /\ Respond(r, [status |-> 200, body |-> ""])
    /\ pc' = [pc EXCEPT ![r] = "done"]
    /\ UNCHANGED <<calls, modals, SubmitVars>>

\* A handler whose degradation step strips the file objects of the inbound
\* payload in place instead of building a new list (not the code's).
POSTDegradesInPlace(r) ==
    /\ pc[r] = "idle" /\ Arrived(r)
    /\ \E body \in Bodies(r) : \E h \in HeaderCases(body) :
        LET payload == ParsePayload(body)
            type == Coalesce(payload, "type", "undefined")
            after ==
                IF type = "message_action"
                THEN [payload EXCEPT !.message.files = ModalMetadata(payload).files]
                ELSE payload
        IN  /\ req' = [req EXCEPT ![r] =
                        [verdict |-> verifySlackRequest(h.ts, h.sig, body),
                         payload |-> after]]
            /\ IF SignatureGateRejects(h.ts, h.sig, body) THEN Reject(r)
               ELSE IF type = "message_action" THEN OnMessageAction(r, payload)
               ELSE IF type = "view_submission" THEN OnViewSubmission(r, payload)
               ELSE Ack(r)
    /\ UNCHANGED <<message, env, verifyVars, composeVars, downloadVars>>

\* route.ts:55-92
POST(r) ==
    /\ pc[r] = "idle" /\ Arrived(r)
    /\ \E body \in Bodies(r) : \E h \in HeaderCases(body) :
        LET payload == ParsePayload(body)
            type == Coalesce(payload, "type", "undefined")
        IN  /\ req' = [req EXCEPT ![r] =
                        [verdict |-> verifySlackRequest(h.ts, h.sig, body),
                         payload |-> payload]]
            /\ IF SignatureGateRejects(h.ts, h.sig, body) THEN Reject(r)
               ELSE IF type = "message_action" THEN OnMessageAction(r, payload)
               ELSE IF type = "view_submission" THEN OnViewSubmission(r, payload)
               ELSE Ack(r)
    /\ UNCHANGED <<message, env, verifyVars, composeVars, downloadVars>>

\* The file of meta.files the loop of route.ts:184 is at.
CurrentFile(r) == SlackFilesOf(r)[idx[r] + 1]

\* route.ts:214: file.name || file.id || "unknown"
CatchFilename(file) ==
    IF Has(file, "name") THEN file.name
    ELSE IF Has(file, "id") THEN file.id ELSE "unknown"

\* A loop that leaves after its first file (not the code's).
NextFileLeavesEarly(r) ==
    /\ idx' = [idx EXCEPT ![r] = @ + 1]
    /\ pc' = [pc EXCEPT ![r] = "post"]
    /\ fileInfo' = [fileInfo EXCEPT ![r] = NoFile]
    /\ downloadUrl' = [downloadUrl EXCEPT ![r] = ""]

\* The loop of route.ts:184 goes to its next file, or ends.
NextFile(r) ==
    /\ idx' = [idx EXCEPT ![r] = @ + 1]
    /\ pc' = [pc EXCEPT ![r] =
                IF idx[r] + 1 = Len(SlackFilesOf(r)) THEN "post" ELSE "resolve"]
    /\ fileInfo' = [fileInfo EXCEPT ![r] = NoFile]
    /\ downloadUrl' = [downloadUrl EXCEPT ![r] = ""]

\* A loop without the try/catch of route.ts:185-221 around one file: an
\* error of a file ends handleSubmit (not the code's).
FileDoneRethrows(r, result) ==
    IF result.kind = "error"
    THEN /\ pc' = [pc EXCEPT ![r] = "failed"]
         /\ UNCHANGED SubmitVars
    ELSE /\ uploadedFiles' = [uploadedFiles EXCEPT ![r] =
                Append(@, [filename |-> result.filename, url |-> result.url,
                           mimetype |-> result.mimetype])]
         /\ UNCHANGED uploadErrors
         /\ NextFile(r)

\* A loop that records the error of a file and skips the files after it
\* (not the code's).
FileDoneStopsOnError(r, result) ==
    IF result.kind = "error"
    THEN /\ uploadErrors' = [uploadErrors EXCEPT ![r] =
                Append(@, [filename |-> result.filename, reason |-> result.reason])]
         /\ UNCHANGED uploadedFiles
         /\ NextFileLeavesEarly(r)
    ELSE /\ uploadedFiles' = [uploadedFiles EXCEPT ![r] =
                Append(@, [filename |-> result.filename, url |-> result.url,
                           mimetype |-> result.mimetype])]
         /\ UNCHANGED uploadErrors
         /\ NextFile(r)

\* Result lists kept in one place for all requests: the result of a file
\* of one submission shows in the lists of every submission (not the code's).
FileDoneShared(r, result) ==
    /\ uploadedFiles' =
        IF result.kind = "uploaded"
        THEN [q \in Req |->
                Append(uploadedFiles[q],
                       [filename |-> result.filename, url |-> result.url,
                        mimetype |-> result.mimetype])]
        ELSE uploadedFiles
    /\ uploadErrors' =
        IF result.kind = "error"
        THEN [q \in Req |->
                Append(uploadErrors[q],
                       [filename |-> result.filename, reason |-> result.reason])]
        ELSE uploadErrors
    /\ NextFile(r)

\* A loop that puts the result of a file at the head of its list (not the
\* code's).
FileDonePrepends(r, result) ==
    /\ uploadedFiles' =
        IF result.kind = "uploaded"
        THEN [uploadedFiles EXCEPT ![r] =
                <<[filename |-> result.filename, url |-> result.url,
                   mimetype |-> result.mimetype]>> \o @]
        ELSE uploadedFiles
    /\ uploadErrors' =
        IF result.kind = "error"
        THEN [uploadErrors EXCEPT ![r] =
                <<[filename |-> result.filename, reason |-> result.reason]>> \o @]
        ELSE uploadErrors
    /\ NextFile(r)

\* route.ts:197-221: the result of one file goes to one of the two lists.
FileDone(r, result) ==
    /\ uploadedFiles' =
        IF result.kind = "uploaded"
        THEN [uploadedFiles EXCEPT ![r] =
                Append(@, [filename |-> result.filename, url |-> result.url,
                           mimetype |-> result.mimetype])]
        ELSE uploadedFiles
    /\ uploadErrors' =
        IF result.kind = "error"
        THEN [uploadErrors EXCEPT ![r] =
                Append(@, [filename |-> result.filename, reason |-> result.reason])]
        ELSE uploadErrors
    /\ NextFile(r)

FilesInfoError == "Slack API error (files.info): file_not_found"

\* A lookup whose failure is swallowed: the file of the metadata goes on to
\* the upload as it is (not the code's).
ResolveFileIgnoresFailure(r) ==
    /\ pc[r] = "resolve"
    /\ LET file == CurrentFile(r)
       IN  IF NeedsLookup(file)
           THEN \E ok \in BOOLEAN :
                   /\ Log(r, [api |-> "files.info", file |-> file.id,
                              index |-> idx[r] + 1, ok |-> ok,
                              answer |-> IF ok THEN "file" ELSE "error"])
                   /\ fileInfo' = [fileInfo EXCEPT ![r] =
                                      IF ok THEN SlackFile(file.id) ELSE file]
                   /\ pc' = [pc EXCEPT ![r] = "engine"]
                   /\ UNCHANGED <<idx, downloadUrl, uploadedFiles, uploadErrors>>
           ELSE /\ fileInfo' = [fileInfo EXCEPT ![r] = file]
                /\ pc' = [pc EXCEPT ![r] = "engine"]
                /\ UNCHANGED <<calls, idx, downloadUrl, uploadedFiles, uploadErrors>>
    /\ UNCHANGED <<message, env, req, response, modals, verifyVars, composeVars, downloadVars>>

\* route.ts:186-192 and the catch of 213-221 for a lookup that throws.
ResolveFile(r) ==
    /\ pc[r] = "resolve"
    /\ LET file == CurrentFile(r)
       IN  IF NeedsLookup(file)
           THEN \E answer \in LookupAnswers :
                   /\ answer # "error" => Has(env, "SLACK_BOT_TOKEN")
                   /\ Log(r, [api |-> "files.info", file |-> file.id,
                              index |-> idx[r] + 1, ok |-> answer # "error",
                              answer |-> answer])
                   /\ IF answer # "error"
                      THEN /\ fileInfo' = [fileInfo EXCEPT ![r] =
                                              ResponseFile(answer, file.id)]
                           /\ pc' = [pc EXCEPT ![r] = "engine"]
                           /\ UNCHANGED <<idx, downloadUrl, uploadedFiles, uploadErrors>>
                      ELSE FileDone(r, UploadError(CatchFilename(file), FilesInfoError))
           ELSE /\ fileInfo' = [fileInfo EXCEPT ![r] = file]
                /\ pc' = [pc EXCEPT ![r] = "engine"]
                /\ UNCHANGED <<calls, idx, downloadUrl, uploadedFiles, uploadErrors>>
    /\ UNCHANGED <<message, env, req, response, modals, verifyVars, composeVars, downloadVars>>

\* uploadAsset.ts:117-138 and downloadFile.ts:41-69: the gates of
\* uploadSlackFileToGitHub and the part of downloadSlackFile before its
\* fetch.  What throws inside the try of uploadAsset.ts:120 is caught at
\* line 179; file.name of line 117 is read before that try, and what it
\* throws is caught by the loop of the route (route.ts:213-221).
Engine(r) ==
    /\ pc[r] = "engine"
    /\ LET file == fileInfo[r]
           filename == EngineFilename(file)
           mimetype == EngineMimetype(file)
           ToFetch(url) ==
               IF url = ""
               THEN FileDone(r, UploadError(filename,
                        "No download URL for file: " \o filename))
               ELSE /\ downloadUrl' = [downloadUrl EXCEPT ![r] = url]
                    /\ pc' = [pc EXCEPT ![r] = "fetch"]
                    /\ UNCHANGED <<idx, fileInfo, uploadedFiles, uploadErrors>>
       IN  IF file = Undefined
           THEN /\ FileDone(r, UploadError(CatchFilename(CurrentFile(r)),
                        TypeErrorReading("name")))
                /\ UNCHANGED calls
           ELSE IF ~isSupportedFileType(mimetype)
           THEN /\ FileDone(r, UploadError(filename,
                        "Unsupported file type: " \o mimetype))
                /\ UNCHANGED calls
           ELSE IF DeclaredTooLarge(file)
           THEN /\ FileDone(r, UploadError(filename, SizeReason(file.size)))
                /\ UNCHANGED calls
           ELSE IF ~Has(env, "SLACK_BOT_TOKEN")
           THEN /\ FileDone(r, UploadError(filename, "SLACK_BOT_TOKEN is not set"))
                /\ UNCHANGED calls
           ELSE IF NeedsLookup(file)
           THEN \E answer \in LookupAnswers :
                   /\ Log(r, [api |-> "files.info", file |-> file.id,
                              index |-> idx[r] + 1, ok |-> answer # "error",
                              answer |-> answer])
                   /\ CASE answer = "file" ->
                             ToFetch(DownloadUrl(SlackFile(file.id)))
                        [] answer = "empty" ->
                             FileDone(r, UploadError(filename,
                                 TypeErrorReading("url_private_download")))
                        [] answer = "error" ->
                             FileDone(r, UploadError(filename, FilesInfoError))
           ELSE /\ ToFetch(DownloadUrl(file))
                /\ UNCHANGED calls
    /\ UNCHANGED <<message, env, req, response, modals, verifyVars, composeVars, downloadVars>>

\* What the download of downloadFile.ts:84-160 can come to.
FetchOutcomes ==
    {"ok", "ok_larger", "timeout", "network", "http_error", "html",
     "stream_error"}

\* A download that takes an HTML response for the file (not the code's).
DeliveredEvenHtml(outcome) == outcome \in {"ok", "ok_larger", "html"}

\* downloadFile.ts:84-160: the download returns a buffer only when the
\* fetch resolved, the response was OK and not HTML, and the stream was read
\* to its end.
Delivered(outcome) == outcome \in {"ok", "ok_larger"}

\* The number of bytes a download that succeeds delivers: the size the
\* platform declares, or more than that.
DeliveredBytes(url, outcome) ==
    IF outcome = "ok_larger" THEN MAX_FILE_SIZE + 1 ELSE FileAtUrl(url).size

\* The message of the error downloadSlackFile throws for an outcome.
DownloadFailure(outcome) ==
    CASE outcome = "timeout" ->
            "Slack download timeout: Request took longer than 30 seconds"
      [] outcome = "network" -> "Slack download failed: fetch failed"
      [] outcome = "http_error" -> "Slack download failed: 404 Not Found"
      [] outcome = "html" -> "Slack returned HTML instead of file: <!DOCTYPE html>"
      [] outcome = "stream_error" -> "Stream read failed: terminated"

\* A download whose result goes to the upload without the size check of
\* uploadAsset.ts:141 (not the code's).
FetchWithoutSizeCheck(r) ==
    /\ pc[r] = "fetch"
    /\ \E outcome \in FetchOutcomes :
        LET url == downloadUrl[r]
            filename == EngineFilename(fileInfo[r])
            delivered == Delivered(outcome)
        IN  /\ Log(r, [api |-> "fetch", url |-> url,
                       authorization |-> "Bearer " \o env.SLACK_BOT_TOKEN,
                       index |-> idx[r] + 1, outcome |-> outcome,
                       bytes |-> IF delivered THEN DeliveredBytes(url, outcome)
                                 ELSE 0,
                       ok |-> delivered])
            /\ IF ~delivered
               THEN FileDone(r, UploadError(filename, DownloadFailure(outcome)))
               ELSE /\ pc' = [pc EXCEPT ![r] = "put"]
                    /\ UNCHANGED SubmitVars
    /\ UNCHANGED <<message, env, req, response, modals, verifyVars, composeVars, downloadVars>>

\* downloadFile.ts:74-171 and the size check of uploadAsset.ts:141-146.
Fetch(r) ==
    /\ pc[r] = "fetch"
    /\ \E outcome \in FetchOutcomes :
        LET url == downloadUrl[r]
            filename == EngineFilename(fileInfo[r])
            delivered == Delivered(outcome)
        IN  /\ Log(r, [api |-> "fetch", url |-> url,
                       authorization |-> "Bearer " \o env.SLACK_BOT_TOKEN,
                       index |-> idx[r] + 1, outcome |-> outcome,
                       bytes |-> IF delivered THEN DeliveredBytes(url, outcome)
                                 ELSE 0,
                       ok |-> delivered])
            /\ IF ~delivered
               THEN FileDone(r, UploadError(filename, DownloadFailure(outcome)))
               ELSE IF DeliveredBytes(url, outcome) > MAX_FILE_SIZE
               THEN FileDone(r, UploadError(filename,
                        SizeReason(DeliveredBytes(url, outcome))))
               ELSE /\ pc' = [pc EXCEPT ![r] = "put"]
                    /\ UNCHANGED SubmitVars
    /\ UNCHANGED <<message, env, req, response, modals, verifyVars, composeVars, downloadVars>>

\* An upload that is tried again when the request fails (not the code's).
PutRetries(r) ==
    /\ pc[r] = "put"
    /\ GitHubConfigured
    /\ \E ok \in BOOLEAN :
        LET filename == EngineFilename(fileInfo[r])
            mimetype == EngineMimetype(fileInfo[r])
        IN  /\ Log(r, [api |-> "contents.put", repo |-> env.GITHUB_REPO,
                       path |-> EncodedPath(IssueOf(r), filename),
                       index |-> idx[r] + 1, ok |-> ok])
            /\ IF ok
               THEN FileDone(r, [kind |-> "uploaded", filename |-> filename,
                                 url |-> PreviewUrl(IssueOf(r), filename),
                                 mimetype |-> mimetype])
               ELSE UNCHANGED <<pc, SubmitVars>>
    /\ UNCHANGED <<message, env, req, response, modals, verifyVars, composeVars, downloadVars>>

\* uploadAsset.ts:148-178 with createOrUpdateFileContents (73-104); the
\* request goes to repos/{GITHUB_OWNER}/{GITHUB_REPO}/contents/{path} and
\* names no branch.
Put(r) ==
    /\ pc[r] = "put"
    /\ LET filename == EngineFilename(fileInfo[r])
           mimetype == EngineMimetype(fileInfo[r])
       IN  IF ~Has(env, "GITHUB_OWNER") \/ ~Has(env, "GITHUB_REPO")
           THEN /\ FileDone(r, UploadError(filename,
                        "GITHUB_OWNER or GITHUB_REPO is not set"))
                /\ UNCHANGED calls
           ELSE IF ~Has(env, "GITHUB_TOKEN")
           THEN /\ FileDone(r, UploadError(filename, "GITHUB_TOKEN is not set"))
                /\ UNCHANGED calls
           ELSE \E ok \in BOOLEAN :
                   /\ Log(r, [api |-> "contents.put", repo |-> env.GITHUB_REPO,
                              path |-> EncodedPath(IssueOf(r), filename),
                              index |-> idx[r] + 1, ok |-> ok])
                   /\ IF ok
                      THEN FileDone(r, [kind |-> "uploaded", filename |-> filename,
                                        url |-> PreviewUrl(IssueOf(r), filename),
                                        mimetype |-> mimetype])
                      ELSE FileDone(r, UploadError(filename,
                               "GitHub API error: 422 Unprocessable Entity"))
    /\ UNCHANGED <<message, env, req, response, modals, verifyVars, composeVars, downloadVars>>

\* route.ts:228-234
ComposedComment(r) ==
    formatIssueComment(MetaOf(r).text, MetaOf(r).user, MetaOf(r).channel,
                       formatAttachments(uploadedFiles[r]), uploadErrors[r])

\* route.ts:228-246: the comment is composed and posted; a post that fails
\* is thrown again and ends handleSubmit in the catch of route.ts:77.
PostComment(r) ==
    /\ pc[r] = "post"
    /\ \E ok \in BOOLEAN :
        /\ ok => GitHubConfigured
        /\ Log(r, [api |-> "postIssueComment", issueNumber |-> IssueOf(r),
                   body |-> ComposedComment(r), ok |-> ok])
        /\ pc' = [pc EXCEPT ![r] = IF ok THEN "done" ELSE "failed"]
    /\ UNCHANGED <<message, env, req, response, modals, SubmitVars, verifyVars, composeVars, downloadVars>>

Next ==
    \E r \in Req :
        \/ POST(r)
        \/ ResolveFile(r)
        \/ Engine(r)
        \/ Fetch(r)
        \/ Put(r)
        \/ PostComment(r)

\* Most files of a message handled by a deployment with a variable unset.
MaxFilesUnset == 1

Init ==
    /\ message \in Messages
    /\ env \in Envs
    /\ env # Env => Len(message.files) <= MaxFilesUnset
    /\ InitRequests
    /\ vTs = Null /\ vSig = Null /\ vBody = "" /\ vOut = "none"
    /\ InitComposeIdle
    /\ InitDownloadIdle

Spec == Init /\ [][Next]_vars

(***************************************************************************)
(* src/unnamed/part_001: the route whose modal metadata carries the place  *)
(* of the message, and whose comment links back to it.                     *)
(***************************************************************************)
\* The limit of part_001:128 and :143 on private_metadata.
MetadataSafeLimit == 2900

\* obj.key where obj itself may be undefined (obj?.key), as a record with
\* the one key as, or with none.
Member(obj, key, as) ==
    IF key \in DOMAIN obj THEN [k \in {as} |-> obj[key]] ELSE <<>>

\* payload.team of a payload, or an object with no property.
TeamOf(payload) == Coalesce(payload, "team", <<>>)

\* part_001:107-112
ProjectedFilesLinked(payload) ==
    [i \in 1..Len(MessageFiles(payload)) |->
        Pick(MessageFiles(payload)[i],
             {"id", "name", "url_private_download", "mimetype"})]

\* part_001:133-138
MinimalFilesLinked(files) ==
    [i \in 1..Len(files) |-> Pick(files[i], {"id", "name"})]

\* A bundle without the place of the message (not the code of part_001).
BuildMetaLinkedWithoutPlace(payload) ==
    [text |-> Coalesce(payload.message, "text", <<"">>),
     user |-> Coalesce(payload.user, "username", payload.user.id),
     channel |-> Coalesce(payload.channel, "name", payload.channel.id),
     files |-> ProjectedFilesLinked(payload)]

\* part_001:114-123; a property whose value is undefined is not written by
\* JSON.stringify and is left out.
BuildMetaLinked(payload) ==
    [text |-> Coalesce(payload.message, "text", <<"">>),
     user |-> Coalesce(payload.user, "username", payload.user.id),
     channel |-> Coalesce(payload.channel, "name", payload.channel.id),
     channelId |-> payload.channel.id,
     files |-> ProjectedFilesLinked(payload)]
        @@ Member(payload.message, "ts", "messageTs")
        @@ Member(TeamOf(payload), "id", "teamId")
        @@ Member(TeamOf(payload), "domain", "teamDomain")

\* The order in which part_001:107-112 writes the keys of a file.
FileKeysLinked == <<"id", "name", "url_private_download", "mimetype">>

JsonFileLinked(f) ==
    LET present == SelectSeq(FileKeysLinked, LAMBDA k : k \in DOMAIN f)
    IN  "{" \o Join([i \in 1..Len(present) |->
                        JsonMember(present[i], JsonString(f[present[i]]))], ",")
            \o "}"

\* The keys of part_001:114-123 after files, in the order written.
PlaceKeys == <<"channelId", "messageTs", "teamId", "teamDomain">>

\* JSON.stringify(meta) of part_001:125, :142 and :156
JsonStringifyMetaLinked(meta) ==
    LET present == SelectSeq(PlaceKeys, LAMBDA k : k \in DOMAIN meta)
    IN  "{" \o Join(<<JsonMember("text", JsonText(meta.text)),
                      JsonMember("user", JsonString(meta.user)),
                      JsonMember("channel", JsonString(meta.channel))>>
                    \o [i \in 1..Len(present) |->
                           JsonMember(present[i], JsonString(meta[present[i]]))]
                    \o <<JsonMember("files",
                            "[" \o Join([i \in 1..Len(meta.files) |->
                                            JsonFileLinked(meta.files[i])], ",")
                                \o "]")>>, ",") \o "}"

\* part_001:125-149: the meta that is serialised into private_metadata.
ModalMetadataLinked(payload) ==
    LET meta == BuildMetaLinked(payload)
        minimal == [meta EXCEPT !.files = MinimalFilesLinked(meta.files)]
    IN  IF Len(JsonStringifyMetaLinked(meta)) > MetadataSafeLimit
        THEN IF Len(JsonStringifyMetaLinked(minimal)) > MetadataSafeLimit
             THEN [meta EXCEPT !.files = <<>>]
             ELSE minimal
        ELSE meta

\* message.ts of the messages of the model.
MessageTs == "1700000000.000100"

\* messageTs.replace(".", "") of part_001:339, on the timestamp of the model.
WithoutDot(ts) == IF ts = MessageTs THEN "1700000000000100" ELSE ts

\* A link that prefers the team id to the team domain (not the code of
\* part_001).
SlackLinkPrefersTeamId(p) ==
    IF Has(p, "channelId") /\ Has(p, "messageTs")
    THEN IF Has(p, "teamId")
         THEN "https://app.slack.com/client/" \o p.teamId \o "/" \o p.channelId
                \o "/message/" \o p.messageTs
         ELSE IF Has(p, "teamDomain")
         THEN "https://" \o p.teamDomain \o ".slack.com/archives/"
                \o p.channelId \o "/p" \o WithoutDot(p.messageTs)
         ELSE ""
    ELSE ""

\* part_001:333-346
SlackLink(p) ==
    IF Has(p, "channelId") /\ Has(p, "messageTs")
    THEN IF Has(p, "teamDomain")
         THEN "https://" \o p.teamDomain \o ".slack.com/archives/"
                \o p.channelId \o "/p" \o WithoutDot(p.messageTs)
         ELSE IF Has(p, "teamId")
         THEN "https://app.slack.com/client/" \o p.teamId \o "/" \o p.channelId
                \o "/message/" \o p.messageTs
         ELSE ""
    ELSE ""

\* part_001:348-350; the label is written in ASCII.
SlackLinkSection(p) ==
    IF SlackLink(p) # ""
    THEN "**Original message**: [View in Slack](" \o SlackLink(p) \o ")  "
    ELSE ""

\* part_001:296-363: formatIssueComment of the route that links back; p is
\* the object it is called with.
formatIssueCommentLinked(p) ==
    LET quoted == Quoted(p.text)
        body == IF quoted = <<"">> THEN <<NoTextPlaceholder>> ELSE quoted
        head == <<"", CommentTitle, "", "**Author**: @" \o p.user \o "  ",
                  "**Channel**: #" \o p.channel \o "  ", SlackLinkSection(p),
                  "", "">>
        nl == <<"", "">>
    IN  Trim(Concat(Concat(Concat(Concat(Concat(Concat(
            head, body), nl), p.attachments), nl), ErrorSection(p.errors)), nl))

(***************************************************************************)
(* Two submissions handled at the same time: two modals are open when the  *)
(* run starts, so that the first request can be a submission and the       *)
(* second arrives while the pipeline of the first is still running.        *)
(***************************************************************************)
\* The messages the two open modals were made for.
PairMessages ==
    { [text |-> <<"alpha">>, files |-> <<SlackFile("F1"), SlackFile("F3")>>],
      [text |-> <<"beta">>, files |-> <<[id |-> "F4"]>>] }

InitPair ==
    /\ message = [text |-> <<"alpha">>, files |-> <<SlackFile("F1"), SlackFile("F3")>>]
    /\ env = Env
    /\ pc = [r \in Req |-> "idle"]
    /\ req = [r \in Req |-> NoRequest]
    /\ response = [r \in Req |-> NoResponse]
    /\ calls = [r \in Req |-> <<>>]
    /\ modals = {ModalMetadata(MessageActionPayload("r1", m)) : m \in PairMessages}
    /\ idx = [r \in Req |-> 0]
    /\ fileInfo = [r \in Req |-> NoFile]
    /\ downloadUrl = [r \in Req |-> ""]
    /\ uploadedFiles = [r \in Req |-> <<>>]
    /\ uploadErrors = [r \in Req |-> <<>>]
    /\ vTs = Null /\ vSig = Null /\ vBody = "" /\ vOut = "none"
    /\ InitComposeIdle
    /\ InitDownloadIdle

SpecPair == InitPair /\ [][Next]_vars

(***************************************************************************)
(* The webhook under the optional configuration of README.md:24-26: a      *)
(* deployment that sets GITHUB_ASSETS_REPO, with or without                *)
(* GITHUB_ASSETS_BRANCH, next to one that sets neither.                    *)
(***************************************************************************)
AssetEnvs ==
    {Env, Env @@ [GITHUB_ASSETS_REPO |-> "tracker-assets"],
     Env @@ [GITHUB_ASSETS_REPO |-> "tracker-assets",
             GITHUB_ASSETS_BRANCH |-> "assets"]}

InitAssets ==
    /\ message \in PairMessages
    /\ env \in AssetEnvs
    /\ InitRequests
    /\ vTs = Null /\ vSig = Null /\ vBody = "" /\ vOut = "none"
    /\ InitComposeIdle
    /\ InitDownloadIdle

SpecAssets == InitAssets /\ [][Next]_vars

(***************************************************************************)
(* Harness for the loop of handleSubmit (route.ts:158-246): the run starts *)
(* where POST has answered a submission and handleSubmit is at its first   *)
(* await.  Each await is on an external call, and a call that returns or   *)
(* fails lets the handler go on to its next await, so every step of a      *)
(* running handleSubmit is eventually taken.                               *)
(***************************************************************************)
\* Messages with two files that can both be transferred (the same image
\* shared twice), with a first file that has no download URL, and without
\* files.
SequentialMessages ==
    { [text |-> <<"alpha">>, files |-> <<SlackFile("F1"), SlackFile("F1")>>],
      [text |-> <<"beta">>, files |-> <<[id |-> "F4"], SlackFile("F1")>>],
      [text |-> <<"gamma">>, files |-> <<>>] }

\* route.ts:72-89 has answered the submission r2 of the modal of one of the
\* messages and has started handleSubmit; r1 has not arrived.
InitSequential ==
    /\ message \in SequentialMessages
    /\ env = Env
    /\ \E issue \in Issues :
        LET meta == ModalMetadata(MessageActionPayload("r1", message))
            body == [payload |-> ViewSubmissionPayload(issue, meta)]
        IN  /\ req = [r \in Req |->
                        IF r = "r2"
                        THEN [verdict |-> verifySlackRequest(FreshTs,
                                  ExpectedSignature(SLACK_SIGNING_SECRET, FreshTs, body),
                                  body),
                              payload |-> ParsePayload(body)]
                        ELSE NoRequest]
            /\ pc = [r \in Req |->
                        IF r = "r2"
                        THEN IF Len(meta.files) = 0 THEN "post" ELSE "resolve"
                        ELSE "idle"]
            /\ modals = {meta}
    /\ response = [r \in Req |->
                      IF r = "r2"
                      THEN [status |-> 200, body |-> "json", response_action |-> "clear"]
                      ELSE NoResponse]
    /\ calls = [r \in Req |-> <<>>]
    /\ idx = [r \in Req |-> 0]
    /\ fileInfo = [r \in Req |-> NoFile]
    /\ downloadUrl = [r \in Req |-> ""]
    /\ uploadedFiles = [r \in Req |-> <<>>]
    /\ uploadErrors = [r \in Req |-> <<>>]
    /\ vTs = Null /\ vSig = Null /\ vBody = "" /\ vOut = "none"
    /\ InitComposeIdle
    /\ InitDownloadIdle

NextSequential ==
    \E r \in Req :
        \/ ResolveFile(r)
        \/ Engine(r)
        \/ Fetch(r)
        \/ Put(r)
        \/ PostComment(r)

SpecSequential ==
    InitSequential /\ [][NextSequential]_vars /\ WF_vars(NextSequential)

(***************************************************************************)
(* Harness for verifySlackRequest: the inputs are drawn in Init and the    *)
(* function is applied once.                                               *)
(***************************************************************************)
\* How far around the edge of the replay window the timestamps are drawn.
TsSpread == 1

TimestampHeaders ==
    {Null, EmptyString, Chars(<<"a", "b", "c">>), Chars(ToDigits(NOW))}
        \cup {Chars(ToDigits(NOW - ReplayWindow + d)) :
                d \in (0 - TsSpread)..TsSpread}
        \cup {Chars(ToDigits(NOW + ReplayWindow + d)) :
                d \in (0 - TsSpread)..TsSpread}

RawBodies == {"payload=A", "payload=B", ""}

SignatureHeaders ==
    {Null, EmptyString, Str(3, <<"v0=">>)}
        \cup {ExpectedSignature(k, ts, b) :
                k \in {SLACK_SIGNING_SECRET, OtherSecret},
                ts \in TimestampHeaders \ {Null},
                b \in RawBodies}

InitVerify ==
    /\ message = [text |-> <<"">>, files |-> <<>>]
    /\ env = Env
    /\ InitRequests
    /\ vTs \in TimestampHeaders
    /\ vSig \in SignatureHeaders
    /\ vBody \in RawBodies
    /\ vOut = "none"
    /\ InitComposeIdle
    /\ InitDownloadIdle

ApplyVerify ==
    /\ vOut = "none"
    /\ vOut' = verifySlackRequest(vTs, vSig, vBody)
    /\ UNCHANGED <<vTs, vSig, vBody, composeVars, downloadVars, flowVars>>

NextVerify == ApplyVerify

SpecVerify == InitVerify /\ [][NextVerify]_vars

(***************************************************************************)
(* Harness for the composition of the comment: the inputs are drawn in     *)
(* Init and formatAttachments and formatIssueComment are applied once.     *)
(***************************************************************************)
\* Files as handleSubmit lists them once uploaded (route.ts:199-203).
UploadedSamples ==
    { [filename |-> "img.png", url |-> "https://x/img.png", mimetype |-> ImagePng],
      [filename |-> "doc.pdf", url |-> "https://x/doc.pdf", mimetype |-> Pdf],
      [filename |-> "book.xlsx", url |-> "https://x/book.xlsx", mimetype |-> Xlsx],
      [filename |-> "data.csv", url |-> "https://x/data.csv", mimetype |-> OctetStream],
      [filename |-> "report", url |-> "https://x/report", mimetype |-> "text/csv"],
      [filename |-> "a.zip", url |-> "https://x/a.zip", mimetype |-> Zip] }

\* Failures as handleSubmit lists them (route.ts:207-210, 216-219).
ErrorSamples ==
    { [filename |-> "big.pdf", reason |-> "size"],
      [filename |-> "img.png", reason |-> "GitHub API error: 422 Unprocessable Entity"] }

\* meta.text of the inputs: no text, one line, two lines, a line break at
\* the end.
ComposeTexts == {<<"">>, <<"hello">>, <<"hello", "world">>, <<"hello", "">>}

ListsOf(S) == UNION {[1..n -> S] : n \in 0..MaxFiles}

ComposeInputs ==
    [text : ComposeTexts, user : {"alice"}, channel : {"general"},
     uploaded : ListsOf(UploadedSamples), errors : ListsOf(ErrorSamples)]

InitCompose ==
    /\ message = [text |-> <<"">>, files |-> <<>>]
    /\ env = Env
    /\ InitRequests
    /\ vTs = Null /\ vSig = Null /\ vBody = "" /\ vOut = "none"
    /\ cIn \in ComposeInputs
    /\ cMeta = NoInput
    /\ cOut = NoInput
    /\ cRes = NoInput
    /\ InitDownloadIdle

\* route.ts:228-234
ApplyCompose ==
    /\ cOut = NoInput
    /\ cOut' = [attachments |-> formatAttachments(cIn.uploaded),
                body |-> formatIssueComment(cIn.text, cIn.user, cIn.channel,
                            formatAttachments(cIn.uploaded), cIn.errors)]
    /\ UNCHANGED <<cIn, cMeta, cRes, verifyVars, downloadVars, flowVars>>

NextCompose == ApplyCompose

SpecCompose == InitCompose /\ [][NextCompose]_vars

(***************************************************************************)
(* Harness for the route of part_001: a message_action payload is drawn in *)
(* Init, its modal is opened, and the submission that echoes the           *)
(* private_metadata composes its comment.                                  *)
(***************************************************************************)
\* Length of a message text with which the metadata fits the limit of
\* part_001 only without the URL and the MIME type of its files.
LinkMidTextLen == 2700

LinkedTexts == {<<"hello", "world">>, <<Rep("x", LinkMidTextLen)>>,
                <<Rep("x", LongTextLen)>>}

\* message.files of the payloads: the files as the platform describes them.
LinkedFileLists == {<<SlackFile("F1")>>, <<SlackFile("F1"), SlackFile("F3")>>,
                    <<SlackFile("F4"), SlackFile("F1")>>}

\* The objects with the required key and any of the optional ones.
Optional(base, opt) == {base} \cup {base @@ o : o \in opt}

LinkedPayloads ==
    { [type |-> "message_action", trigger_id |-> "trigger-1",
       user |-> u, channel |-> c, message |-> m] @@ t :
        u \in Optional([id |-> "U1"], {[username |-> "alice"]}),
        c \in Optional([id |-> "C1"], {[name |-> "general"]}),
        t \in {<<>>, [team |-> [id |-> "T1"]],
               [team |-> [id |-> "T1", domain |-> "acme"]]},
        m \in { tx @@ ts @@ fs :
                 tx \in {<<>>} \cup {[text |-> x] : x \in LinkedTexts},
                 ts \in {<<>>, [ts |-> MessageTs]},
                 fs \in {<<>>} \cup {[files |-> l] : l \in LinkedFileLists} } }

InitLinked ==
    /\ message = [text |-> <<"">>, files |-> <<>>]
    /\ env = Env
    /\ InitRequests
    /\ vTs = Null /\ vSig = Null /\ vBody = "" /\ vOut = "none"
    /\ cIn \in LinkedPayloads
    /\ cMeta = NoInput
    /\ cOut = NoInput
    /\ cRes = NoInput
    /\ InitDownloadIdle

\* part_001:105-178: the metadata of the modal, which Slack echoes as the
\* private_metadata of the submission.
OpenModalLinked ==
    /\ cMeta = NoInput
    /\ cMeta' = ModalMetadataLinked(cIn)
    /\ UNCHANGED <<cIn, cOut, cRes, verifyVars, downloadVars, flowVars>>

\* part_001:229, the reason of a file without a download URL (the source
\* has it in Japanese).
NoDownloadUrlLinked == "could not get the download URL"

\* part_001:84, the message of a thrown value that is not an Error (the
\* source has it in Japanese).
UnknownErrorLinked == "an unknown error occurred"

\* file.name || file.id || "unknown" of part_001:216, :226 and :272
NameOrIdLinked(file) ==
    IF Has(file, "name") THEN file.name
    ELSE IF Has(file, "id") THEN file.id ELSE "unknown"

\* part_001:202
NeedsLookupLinked(file) ==
    Has(file, "id") /\ (~Has(file, "url_private_download") \/ ~Has(file, "mimetype"))

\* part_001:207-212: the descriptor made of the answer of files.info.
FileInfoLinked(file, answer) ==
    [id |-> file.id]
        @@ (IF "name" \in DOMAIN answer THEN [name |-> answer.name]
            ELSE Pick(file, {"name"}))
        @@ Pick(answer, {"url_private_download"})
        @@ (IF "mimetype" \in DOMAIN answer THEN [mimetype |-> answer.mimetype]
            ELSE Pick(file, {"mimetype"}))

\* An entry of uploadErrors.
ErrorLinked(filename, reason) == [filename |-> filename, reason |-> reason]

\* What one pass of the loop leaves: the entries it pushed and the calls
\* it made.
PassLinked(pushed, failed, made) ==
    [uploaded |-> pushed, errors |-> failed, calls |-> made]

\* How deleteBlobFile can end.  The function is not among the sources;
\* a cleanup that can fail is modelled as a call that returns or throws.
DeleteBlobOutcomes == {"deleted", "throws"}

\* The ways the calls of part_001:237-269 can end: the file is staged or
\* the staging throws; the upload answers with a URL, answers with an
\* error or throws; the staged copy is deleted or the deletion throws.
TransferOutcomes ==
    { [store |-> s, upload |-> u, delete |-> d] :
        s \in {"stored", "throws"}, u \in {"url", "error", "throws"},
        d \in DeleteBlobOutcomes }

\* part_001:235-278: the file is staged, uploaded and its staged copy is
\* deleted, all inside one try whose catch pushes an error.
TransferLinked(file, info, o, before) ==
    LET filename == EngineFilename(info)
        failed(msg) == <<ErrorLinked(NameOrIdLinked(info), msg)>>
        store == <<[api |-> "blob.store", file |-> file.id,
                    url |-> info.url_private_download]>>
        upload == <<[api |-> "contents.put", file |-> file.id]>>
        delete == <<[api |-> "blob.delete", file |-> file.id]>>
        pushed == <<[filename |-> filename, url |-> "https://x/" \o filename,
                     isImage |-> StartsWithImage(Coalesce(info, "mimetype", ""))]>>
    IN  CASE o.store = "throws" ->
               PassLinked(<<>>, failed("Blob store failed"), before \o store)
          [] o.store = "stored" /\ o.upload = "throws" ->
               PassLinked(<<>>, failed("GitHub upload failed"),
                          before \o store \o upload)
          [] o.store = "stored" /\ o.upload = "url" ->
               PassLinked(pushed,
                          IF o.delete = "throws"
                          THEN failed("Blob delete failed") ELSE <<>>,
                          before \o store \o upload \o delete)
          [] o.store = "stored" /\ o.upload = "error" ->
               PassLinked(<<>>,
                          <<ErrorLinked(filename, "Upload rejected")>>
                              \o (IF o.delete = "throws"
                                  THEN failed("Blob delete failed") ELSE <<>>),
                          before \o store \o upload \o delete)

\* A pass as WithUrlLinked makes it, but one that stages the file whether
\* or not it has a download URL (not the code of part_001).
WithUrlLinkedAlwaysFetches(file, info, before) ==
    { TransferLinked(file, info @@ [url_private_download |-> ""], o, before) :
        o \in TransferOutcomes }

\* part_001:224-278: a file without a download URL is skipped with an
\* error; any other is transferred.
WithUrlLinked(file, info, before) ==
    IF ~Has(info, "url_private_download")
    THEN { PassLinked(<<>>,
                      <<ErrorLinked(NameOrIdLinked(info), NoDownloadUrlLinked)>>,
                      before) }
    ELSE { TransferLinked(file, info, o, before) : o \in TransferOutcomes }

\* part_001:199-279, one pass of the loop: the lookup of a file that has
\* an id and lacks its URL or its MIME type, then the rest of the pass.
PassesLinked(file) ==
    IF NeedsLookupLinked(file)
    THEN LET lookup == <<[api |-> "files.info", file |-> file.id]>>
         IN  UNION { CASE answer = "file" ->
                            WithUrlLinked(file,
                                FileInfoLinked(file, SlackFile(file.id)), lookup)
                       [] answer = "empty" ->
                            { PassLinked(<<>>,
                                <<ErrorLinked(NameOrIdLinked(file),
                                              TypeErrorReading("name"))>>, lookup) }
                       [] answer = "error" ->
                            { PassLinked(<<>>,
                                <<ErrorLinked(NameOrIdLinked(file), FilesInfoError)>>,
                                lookup) }
                     : answer \in LookupAnswers }
    ELSE WithUrlLinked(file, file, <<>>)

\* part_001:199-279: the passes over slackFiles, one after the other.
RECURSIVE LoopResults(_)
LoopResults(slackFiles) ==
    IF slackFiles = <<>>
    THEN { PassLinked(<<>>, <<>>, <<>>) }
    ELSE { PassLinked(first.uploaded \o rest.uploaded,
                      first.errors \o rest.errors,
                      first.calls \o rest.calls) :
             first \in PassesLinked(Head(slackFiles)),
             rest \in LoopResults(Tail(slackFiles)) }

\* The attachments block of the uploaded files of part_001, whose entries
\* say whether they are images: an image is shown inline.
formatAttachmentsLinked(uploaded) ==
    IF uploaded = <<>> THEN <<"">>
    ELSE <<"", AttachmentsHeading>>
            \o [i \in 1..Len(uploaded) |->
                   IF uploaded[i].isImage
                   THEN "![" \o uploaded[i].filename \o "](" \o uploaded[i].url \o ")"
                   ELSE "[" \o uploaded[i].filename \o "](" \o uploaded[i].url \o ")"]
            \o <<"">>

\* part_001:78-95: the response to a submission whose handleSubmit
\* returned, and to one whose handleSubmit threw.
ClearResponse == [status |-> 200, json |-> [response_action |-> "clear"]]

ErrorsResponse(msg) ==
    [status |-> 200,
     json |-> [response_action |-> "errors", errors |-> [issue |-> msg]]]

\* The message JSON.parse throws with on a private_metadata that is not
\* JSON.
JsonSyntaxError == "Unexpected token in JSON"

\* part_005:16-18, the error of a comment the tracker refused.
PostCommentError == "Failed to post issue comment"

\* A submission as SubmitLinked answers it, but one that is cleared
\* whether or not the comment was posted (not the code of part_001).
RespondLinkedAlwaysClear(thrown) == ClearResponse

\* part_001:75-98: the response of POST to a view_submission.
RespondLinked(thrown) ==
    IF thrown = "" THEN ClearResponse ELSE ErrorsResponse(thrown)

\* part_001:75-98 and 180-294, a submission whose private_metadata is not
\* the JSON the modal was opened with: JSON.parse throws before any call
\* is made, and POST answers with the message.
SubmitUnparsable ==
    /\ cMeta # NoInput /\ cRes = NoInput
    /\ cRes' = [thrown |-> JsonSyntaxError, parsed |-> FALSE, posted |-> FALSE,
                uploaded |-> <<>>, errors |-> <<>>, calls |-> <<>>,
                response |-> RespondLinked(JsonSyntaxError)]
    /\ UNCHANGED <<cIn, cMeta, cOut, verifyVars, downloadVars, flowVars>>

\* part_001:75-98 and 180-294: handleSubmit parses the metadata, runs the
\* file loop over meta.files, composes the comment from the metadata and
\* the lists of the loop and posts it; POST answers with clear when
\* handleSubmit returned and with the message of what it threw otherwise.
SubmitLinked ==
    /\ cMeta # NoInput /\ cRes = NoInput
    /\ LET slackFiles == Coalesce(cMeta, "files", <<>>)
       IN  \E res \in LoopResults(slackFiles), posted \in BOOLEAN :
              LET attachments == formatAttachmentsLinked(res.uploaded)
                  thrown == IF posted THEN "" ELSE PostCommentError
              IN  /\ cOut' = [slackFiles |-> slackFiles,
                              attachments |-> attachments,
                              errors |-> res.errors,
                              body |-> formatIssueCommentLinked(
                                          Pick(cMeta, {"text", "user", "channel",
                                                       "channelId", "messageTs",
                                                       "teamId", "teamDomain"})
                                          @@ [attachments |-> attachments,
                                              errors |-> res.errors])]
                  /\ cRes' = [thrown |-> thrown, parsed |-> TRUE, posted |-> posted,
                              uploaded |-> res.uploaded, errors |-> res.errors,
                              calls |-> res.calls
                                  \o <<[api |-> "issues.createComment"]>>,
                              response |-> RespondLinked(thrown)]
    /\ UNCHANGED <<cIn, cMeta, verifyVars, downloadVars, flowVars>>

NextLinked == OpenModalLinked \/ SubmitUnparsable \/ SubmitLinked

SpecLinked == InitLinked /\ [][NextLinked]_vars

(***************************************************************************)
(* Harness for downloadSlackFile of src/src/lib/slack/downloadFile.ts from *)
(* its fetch on (lines 74-171): the fetch, the 30 s timer that races it    *)
(* and the 60 s idle timer of the stream are separate events.  What runs   *)
(* after an await runs to the next await before any timer callback can,    *)
(* so a settled promise and the code that awaits it are one step.          *)
(***************************************************************************)
\* Most chunks the body of a response is read in.
MaxChunks == 3

TimeoutMessage == "Slack download timeout: Request took longer than 30 seconds"

\* What fetch can reject with when nothing aborted it.
FetchErrors == {"fetch failed", "socket timeout"}

\* error.message.includes("timeout"), on the messages of the model.
MentionsTimeout(msg) == msg \in {"socket timeout", TimeoutMessage}

\* The responses a fetch can resolve with.
ResponseKinds == {"ok", "not_ok", "no_body", "html"}

\* The descriptors downloadSlackFile is called with: those of a payload, and
\* one that has neither an id nor a URL.
DownloadInputs == PayloadFiles \cup {[name |-> "lost.png", mimetype |-> ImagePng]}

InitDownload ==
    /\ message = [text |-> <<"">>, files |-> <<>>]
    /\ env \in {Env, Without(Env, "SLACK_BOT_TOKEN")}
    /\ InitRequests
    /\ vTs = Null /\ vSig = Null /\ vBody = "" /\ vOut = "none"
    /\ InitComposeIdle
    /\ \E file \in DownloadInputs :
          dl = [pc |-> "begin", file |-> file, lookups |-> 0,
                downloadUrl |-> "", filename |-> EngineFilename(file),
                timer |-> "unset", fetch |-> "none", authorization |-> "",
                aborted |-> FALSE, res |-> "none", streamTimer |-> "unset",
                chunks |-> 0, error |-> ""]

\* downloadFile.ts:45-69: the token, the lookup of a file that has an id
\* and no URL, and the download URL.
PrepareDownload ==
    /\ dl.pc = "begin"
    /\ LET Throw(d, msg) == [d EXCEPT !.pc = "thrown", !.error = msg]
           WithUrl(d, url) ==
               IF url = ""
               THEN Throw(d, "No download URL for file: " \o dl.filename)
               ELSE [d EXCEPT !.pc = "start", !.downloadUrl = url]
       IN  IF ~Has(env, "SLACK_BOT_TOKEN")
           THEN dl' = Throw(dl, "SLACK_BOT_TOKEN is not set")
           ELSE IF NeedsLookup(dl.file)
           THEN \E answer \in LookupAnswers :
                   LET d == [dl EXCEPT !.lookups = @ + 1]
                   IN  dl' = CASE answer = "file" ->
                                    WithUrl(d, DownloadUrl(SlackFile(dl.file.id)))
                               [] answer = "empty" ->
                                    Throw(d, TypeErrorReading("url_private_download"))
                               [] answer = "error" -> Throw(d, FilesInfoError)
           ELSE dl' = WithUrl(dl, DownloadUrl(dl.file))
    /\ UNCHANGED <<verifyVars, composeVars, flowVars>>

\* downloadFile.ts:75-96: the timer is set, the fetch is sent with the
\* bearer token, and the function awaits the race of the two.
StartDownload ==
    /\ dl.pc = "start"
    /\ dl' = [dl EXCEPT !.pc = "racing", !.timer = "armed", !.fetch = "pending",
                        !.authorization = "Bearer " \o env.SLACK_BOT_TOKEN]
    /\ UNCHANGED <<verifyVars, composeVars, flowVars>>

\* downloadFile.ts:117-128 and 148: what the function does with the
\* response once the race is won by the fetch.
AfterResponse(d, kind) ==
    CASE kind \in {"not_ok", "no_body"} ->
            [d EXCEPT !.pc = "thrown", !.error = "Slack download failed: 403 "]
      [] kind = "html" ->
            [d EXCEPT !.pc = "thrown",
                      !.error = "Slack returned HTML instead of file: <html>"]
      [] OTHER -> [d EXCEPT !.pc = "reading", !.streamTimer = "armed"]

\* A continuation that leaves the 30 s timer running (not the code's).
FetchResolvesKeepsTimer ==
    /\ dl.pc = "racing" /\ dl.fetch = "pending"
    /\ \E kind \in ResponseKinds :
          dl' = AfterResponse([dl EXCEPT !.fetch = "resolved", !.res = kind], kind)
    /\ UNCHANGED <<verifyVars, composeVars, flowVars>>

\* downloadFile.ts:96-100: the fetch resolves first; clearTimeout(timeoutId).
FetchResolves ==
    /\ dl.pc = "racing" /\ dl.fetch = "pending"
    /\ \E kind \in ResponseKinds :
          dl' = AfterResponse([dl EXCEPT !.fetch = "resolved", !.res = kind,
                                         !.timer = "cleared"], kind)
    /\ UNCHANGED <<verifyVars, composeVars, flowVars>>

\* downloadFile.ts:103-114: the fetch rejects first.
FetchRejects ==
    /\ dl.pc = "racing" /\ dl.fetch = "pending"
    /\ \E msg \in FetchErrors :
          dl' = [dl EXCEPT !.pc = "thrown", !.fetch = "rejected",
                           !.timer = "cleared", !.aborted = TRUE,
                           !.error = IF MentionsTimeout(msg) THEN TimeoutMessage
                                     ELSE "Slack download failed: " \o msg]
    /\ UNCHANGED <<verifyVars, composeVars, flowVars>>

\* downloadFile.ts:77-80 and 103-112: the callback of the 30 s timer.  It
\* rejects timeoutPromise; when the race is still open the catch aborts the
\* fetch and throws the timeout error.
TimerFires ==
    /\ dl.timer = "armed"
    /\ dl' = IF dl.pc = "racing"
             THEN [dl EXCEPT !.timer = "fired", !.pc = "thrown",
                             !.fetch = "aborted", !.aborted = TRUE,
                             !.error = TimeoutMessage]
             ELSE [dl EXCEPT !.timer = "fired"]
    /\ UNCHANGED <<verifyVars, composeVars, flowVars>>

\* downloadFile.ts:150-153: a chunk arrives; resetTimeout() clears the idle
\* timer and sets it again.
ReadChunk ==
    /\ dl.pc = "reading" /\ dl.chunks < MaxChunks
    /\ dl' = [dl EXCEPT !.chunks = @ + 1, !.streamTimer = "armed"]
    /\ UNCHANGED <<verifyVars, composeVars, flowVars>>

\* An end of stream that leaves the idle timer running (not the code's).
StreamEndsKeepsTimer ==
    /\ dl.pc = "reading"
    /\ dl' = [dl EXCEPT !.pc = "returned"]
    /\ UNCHANGED <<verifyVars, composeVars, flowVars>>

\* downloadFile.ts:153-171: the stream ends; clearTimeout(streamTimeoutId)
\* and the buffer is returned.
StreamEnds ==
    /\ dl.pc = "reading"
    /\ dl' = [dl EXCEPT !.pc = "returned", !.streamTimer = "cleared"]
    /\ UNCHANGED <<verifyVars, composeVars, flowVars>>

\* downloadFile.ts:150 and 158-160: the stream fails while it is read; the
\* catch rethrows and does not touch streamTimeoutId, which is local to
\* the try.
StreamFails ==
    /\ dl.pc = "reading"
    /\ dl' = [dl EXCEPT !.pc = "thrown",
                        !.error = "Stream read failed: aborted"]
    /\ UNCHANGED <<verifyVars, composeVars, flowVars>>

\* downloadFile.ts:143-145: the callback of the idle timer destroys the
\* stream, which fails the read when one is going on.
StreamTimerFires ==
    /\ dl.streamTimer = "armed"
    /\ dl' = IF dl.pc = "reading"
             THEN [dl EXCEPT !.streamTimer = "fired", !.pc = "thrown",
                             !.error = "Stream read failed: Stream read timeout: "
                                         \o "No data received for 60 seconds"]
             ELSE [dl EXCEPT !.streamTimer = "fired"]
    /\ UNCHANGED <<verifyVars, composeVars, flowVars>>

\* uploadAsset.ts:179-184: what uploadSlackFileToGitHub makes of a download
\* that threw.
DownloadResult ==
    IF dl.pc = "thrown" THEN UploadError(dl.filename, dl.error)
    ELSE [kind |-> "none"]

NextDownload ==
    \/ PrepareDownload
    \/ StartDownload
    \/ FetchResolves
    \/ FetchRejects
    \/ TimerFires
    \/ ReadChunk
    \/ StreamEnds
    \/ StreamFails
    \/ StreamTimerFires

SpecDownload == InitDownload /\ [][NextDownload]_vars

(***************************************************************************)
(* Harness for the downloadSlackFile of src/unnamed/part_007, which tries  *)
(* its fetch again (lines 80-143), from the first timer on.  The fetch,    *)
(* the abort timer and the wait before a retry are separate events.        *)
(***************************************************************************)
\* maxRetries of part_007:87
MaxRetries == 2

RetryFiles == {"img.png", "big.pdf"}

\* The message of part_007:120.
RetryTimeoutMessage(filename, retryCount) ==
    "Slack download timeout after 60 seconds for " \o filename
        \o " (retried " \o IntStr(retryCount) \o " times)"

\* part_007:80-87: the call has its URL and is about to set its first
\* timer.
InitRetry ==
    /\ message = [text |-> <<"">>, files |-> <<>>]
    /\ env = Env
    /\ InitRequests
    /\ vTs = Null /\ vSig = Null /\ vBody = "" /\ vOut = "none"
    /\ InitComposeIdle
    /\ \E filename \in RetryFiles :
          dl = [pc |-> "begin", filename |-> filename, retryCount |-> 0,
                attempts |-> 0, timers |-> 0, timer |-> "unset",
                aborted |-> FALSE, fetch |-> "none", signals |-> <<>>,
                trail |-> <<>>, res |-> "none", chunks |-> 0, error |-> ""]

\* part_007:96-103: fetch is called with the signal of the controller in
\* use.
SendFetch(d) ==
    [d EXCEPT !.pc = "fetching", !.fetch = "pending", !.attempts = @ + 1,
              !.signals = Append(@, d.timers)]

\* part_007:80-96: the first timer is set and the loop is entered; with
\* retryCount = 0 the fetch is sent without a wait.
StartRetry ==
    /\ dl.pc = "begin"
    /\ dl' = SendFetch([dl EXCEPT !.timers = 1, !.timer = "armed"])
    /\ UNCHANGED <<verifyVars, composeVars, flowVars>>

\* part_007:91-96: the wait of 1000 * retryCount ms before a retry ends and
\* the fetch is sent.
WaitEnds ==
    /\ dl.pc = "waiting"
    /\ dl' = SendFetch(dl)
    /\ UNCHANGED <<verifyVars, composeVars, flowVars>>

\* part_007:81-83 and 115-117: the timer of the controller in use fires
\* and aborts it.
AbortTimerFires ==
    /\ dl.pc \in {"waiting", "fetching"}
    /\ dl.timer = "armed"
    /\ dl' = [dl EXCEPT !.timer = "fired", !.aborted = TRUE]
    /\ UNCHANGED <<verifyVars, composeVars, flowVars>>

\* part_007:145-188 after the loop: a response that is not OK or has no
\* body, or that is HTML, is thrown; the body of any other is read.
AfterResponseRetry(d, kind) ==
    CASE kind \in {"not_ok", "no_body"} ->
            [d EXCEPT !.pc = "thrown",
                      !.error = "Slack download failed: 403 " \o d.filename]
      [] kind = "html" ->
            [d EXCEPT !.pc = "thrown",
                      !.error = "Slack returned HTML instead of file ("
                                    \o d.filename \o ")"]
      [] kind = "ok" -> [d EXCEPT !.pc = "reading"]

\* A loop that tries again when the response is not OK (not the code of
\* part_007).
FetchAnswersRetriesNotOk ==
    /\ dl.pc = "fetching" /\ dl.fetch = "pending" /\ ~dl.aborted
    /\ \E kind \in ResponseKinds :
          LET d == [dl EXCEPT !.fetch = "none", !.timer = "cleared",
                              !.trail = Append(@, "response"), !.res = kind]
          IN  dl' = IF kind = "not_ok" /\ dl.retryCount < MaxRetries
                    THEN [d EXCEPT !.pc = "waiting", !.retryCount = @ + 1,
                                   !.timers = @ + 1, !.timer = "armed",
                                   !.res = "none"]
                    ELSE AfterResponseRetry(d, kind)
    /\ UNCHANGED <<verifyVars, composeVars, flowVars>>

\* part_007:96-106: the fetch resolves with a response; the timer is
\* cleared and the loop is left, whatever the status of the response.
FetchAnswers ==
    /\ dl.pc = "fetching" /\ dl.fetch = "pending" /\ ~dl.aborted
    /\ \E kind \in ResponseKinds :
          dl' = AfterResponseRetry(
                    [dl EXCEPT !.fetch = "none", !.timer = "cleared",
                               !.trail = Append(@, "response"), !.res = kind],
                    kind)
    /\ UNCHANGED <<verifyVars, composeVars, flowVars>>

\* part_007:107-138, the catch of the loop: the timer is cleared; while
\* retryCount < maxRetries the count goes up, a new controller and a new
\* timer are made and the loop goes on; else the error is thrown.
CatchRetry(d, outcome, msg) ==
    LET caught == [d EXCEPT !.fetch = "none", !.timer = "cleared",
                            !.trail = Append(@, outcome)]
    IN  IF d.retryCount < MaxRetries
        THEN [caught EXCEPT !.pc = "waiting", !.retryCount = @ + 1,
                            !.timers = @ + 1, !.timer = "armed",
                            !.aborted = FALSE]
        ELSE [caught EXCEPT !.pc = "thrown", !.error = msg]

\* part_007:107-138: the fetch rejects with an error that is not an abort.
FetchThrows ==
    /\ dl.pc = "fetching" /\ dl.fetch = "pending" /\ ~dl.aborted
    /\ dl' = CatchRetry(dl, "thrown", "fetch failed")
    /\ UNCHANGED <<verifyVars, composeVars, flowVars>>

\* part_007:107-121: the fetch whose controller was aborted rejects with
\* an AbortError.
FetchAborted ==
    /\ dl.pc = "fetching" /\ dl.fetch = "pending" /\ dl.aborted
    /\ dl' = CatchRetry(dl, "aborted",
                        RetryTimeoutMessage(dl.filename, dl.retryCount))
    /\ UNCHANGED <<verifyVars, composeVars, flowVars>>

\* part_007:186-188: a chunk of the body is read.
ReadChunkRetry ==
    /\ dl.pc = "reading"
    /\ dl.chunks < MaxChunks
    /\ dl' = [dl EXCEPT !.chunks = @ + 1]
    /\ UNCHANGED <<verifyVars, composeVars, flowVars>>

\* part_007:186-196: the body ends and the buffer is returned.
StreamEndsRetry ==
    /\ dl.pc = "reading"
    /\ dl' = [dl EXCEPT !.pc = "returned"]
    /\ UNCHANGED <<verifyVars, composeVars, flowVars>>

\* part_007:186-188: reading the body throws.
StreamFailsRetry ==
    /\ dl.pc = "reading"
    /\ dl' = [dl EXCEPT !.pc = "thrown", !.error = "terminated"]
    /\ UNCHANGED <<verifyVars, composeVars, flowVars>>

NextRetry ==
    \/ StartRetry
    \/ WaitEnds
    \/ AbortTimerFires
    \/ FetchAnswers
    \/ FetchThrows
    \/ FetchAborted
    \/ ReadChunkRetry
    \/ StreamEndsRetry
    \/ StreamFailsRetry

\* Every timer that is set fires unless it is cleared, and every wait
\* ends: a step that can be taken is taken.
SpecRetry == InitRetry /\ [][NextRetry]_vars /\ WF_vars(NextRetry)

(***************************************************************************)
(* Properties                                                              *)
(***************************************************************************)
PayloadType(r) == Coalesce(req[r].payload, "type", "undefined")

\* The calls of request r to one API, in order.
CallsTo(r, api) == SelectSeq(calls[r], LAMBDA c : c.api = api)

\* handleSubmit of request r has returned or thrown.
SubmitEnded(r) == PayloadType(r) = "view_submission" /\ pc[r] \in {"done", "failed"}

\* C1: a request whose signature verification fails is answered 401 and
\* makes no outbound call, before or after the response.
C1_UnverifiedRequestIsRejected ==
    \A r \in Req :
        req[r].verdict \in {"false", "throw"} =>
            /\ response[r].status = 401
            /\ calls[r] = <<>>

\* |now - timestamp| <= 300 for a timestamp header: the header is a number
\* and lies in the window.
WithinReplayWindow(ts) ==
    LET n == Number(ts)
    IN  ~n.nan /\ Abs(NOW - n.val) <= ReplayWindow

\* C2: with both headers present, verifySlackRequest is true exactly when
\* the signature is "v0=" + HMAC(secret, v0:ts:body) and the timestamp is
\* within 300 s of now; a request accepted for one body is rejected for
\* every other body with the same timestamp and signature.
C2_VerifyIffSignedAndFresh ==
    (vOut # "none" /\ vTs # Null /\ vSig # Null) =>
        /\ vOut = "true" <=>
              /\ vSig = ExpectedSignature(SLACK_SIGNING_SECRET, vTs, vBody)
              /\ WithinReplayWindow(vTs)
        /\ vOut = "true" =>
              \A b \in RawBodies \ {vBody} :
                  verifySlackRequest(vTs, vSig, b) = "false"

\* C3: verifySlackRequest settles to false, and does not throw, when a
\* header is missing, the timestamp is stale, the signature has another
\* length than the expected one, or the HMAC does not match.
C3_RejectionsSettleToFalse ==
    vOut # "none" =>
        /\ vOut \in {"true", "false"}
        /\ (vTs = Null \/ vSig = Null) => vOut = "false"
        /\ (~Number(vTs).nan /\ Abs(NOW - Number(vTs).val) > ReplayWindow)
              => vOut = "false"
        /\ vSig.len # 3 + HexLen => vOut = "false"
        /\ vSig # ExpectedSignature(SLACK_SIGNING_SECRET, vTs, vBody)
              => vOut = "false"

\* C3 witness: a fresh request whose signature is shorter than the expected
\* one was checked.
C3_Witness ==
    /\ vOut = "false"
    /\ vTs = Chars(ToDigits(NOW))
    /\ vSig = Str(3, <<"v0=">>)

\* C4: a verified view_submission is answered only after handleSubmit has
\* finished, with "clear" when it succeeded and "errors" when it failed.
C4_SubmissionAnsweredAfterPipeline ==
    \A r \in Req :
        (/\ req[r].verdict = "true"
         /\ PayloadType(r) = "view_submission"
         /\ response[r] # NoResponse) =>
            /\ pc[r] \in {"done", "failed"}
            /\ pc[r] = "done" => response[r].response_action = "clear"
            /\ pc[r] = "failed" => response[r].response_action = "errors"

\* C5: the comment is posted at most once per submission, and only when
\* every file of the submission is in one of the two result lists; the
\* posted body is composed from those lists and names every file's result,
\* and no file is processed after the post.
C5_OneCommentAfterAllFiles ==
    \A r \in Req :
        LET posts == CallsTo(r, "postIssueComment")
            n == Len(SlackFilesOf(r))
        IN  /\ Len(posts) <= 1
            /\ Len(posts) = 1 =>
                /\ idx[r] = n
                /\ Len(uploadedFiles[r]) + Len(uploadErrors[r]) = n
                /\ calls[r][Len(calls[r])].api = "postIssueComment"
                /\ posts[1].body = ComposedComment(r)
                /\ \A i \in 1..Len(uploadedFiles[r]) :
                      HasLine(posts[1].body, AttachmentLine(uploadedFiles[r][i]))
                /\ \A i \in 1..Len(uploadErrors[r]) :
                      HasLine(posts[1].body, ErrorLine(uploadErrors[r][i]))

\* C5 witness: a submission of two files, one uploaded and one failed, has
\* posted its comment.
C5_Witness ==
    \E r \in Req :
        /\ Len(CallsTo(r, "postIssueComment")) = 1
        /\ Len(SlackFilesOf(r)) = 2
        /\ Len(uploadedFiles[r]) = 1
        /\ Len(uploadErrors[r]) = 1

\* The file the upload engine gets for a file of the metadata.
Resolved(f) == IF NeedsLookup(f) THEN SlackFile(f.id) ELSE f

\* handleSubmit of r has ended, exactly one contents upload threw, and
\* nothing else stood in the way of any file: every file has a supported
\* type, a download URL and no oversize declaration, and every lookup and
\* download succeeded within the size limit.
OnlyOneUploadThrew(r) ==
    /\ SubmitEnded(r)
    /\ Len(SelectSeq(calls[r], LAMBDA c : c.api = "contents.put" /\ ~c.ok)) = 1
    /\ \A i \in 1..Len(calls[r]) :
          LET c == calls[r][i]
          IN  /\ c.api = "files.info" => c.answer = "file"
              /\ c.api = "fetch" => c.ok
              /\ c.api = "fetch" => DeliveredBytes(c.url, c.outcome) <= MAX_FILE_SIZE
    /\ \A i \in 1..Len(SlackFilesOf(r)) :
          LET f == Resolved(SlackFilesOf(r)[i])
          IN  /\ isSupportedFileType(EngineMimetype(f))
              /\ ~DeclaredTooLarge(f)
              /\ DownloadUrl(f) # ""

\* C6 as stated: with N files of which exactly one upload throws, N-1 files
\* are uploaded, one error is recorded, and the comment has both the
\* attachments section and the failures section.
C6_OneFailureBothSections ==
    \A r \in Req :
        OnlyOneUploadThrew(r) =>
            LET n == Len(SlackFilesOf(r))
                body == CallsTo(r, "postIssueComment")[1].body
            IN  /\ Len(uploadedFiles[r]) = n - 1
                /\ Len(uploadErrors[r]) = 1
                /\ HasLine(body, AttachmentsHeading)
                /\ HasLine(body, ErrorsHeading)

\* C6 amended: with N files of which exactly one upload throws, N-1 files
\* are uploaded, one error is recorded, the comment has the failures
\* section, and it has the attachments section exactly when N >= 2.
C6_OneFailureSections ==
    \A r \in Req :
        OnlyOneUploadThrew(r) =>
            LET n == Len(SlackFilesOf(r))
                body == CallsTo(r, "postIssueComment")[1].body
            IN  /\ Len(uploadedFiles[r]) = n - 1
                /\ Len(uploadErrors[r]) = 1
                /\ HasLine(body, ErrorsHeading)
                /\ HasLine(body, ErrorLine(uploadErrors[r][1]))
                /\ HasLine(body, AttachmentsHeading) <=> n >= 2

\* C6 witness: of two files the upload of the first threw, and the second
\* was uploaded after it.
C6_Witness ==
    \E r \in Req :
        /\ OnlyOneUploadThrew(r)
        /\ Len(SlackFilesOf(r)) = 2
        /\ ~CallsTo(r, "contents.put")[1].ok
        /\ CallsTo(r, "contents.put")[2].ok

\* C7: no failure of a file fails the submission: handleSubmit fails only
\* by the post itself, it does not end without having posted to the
\* selected issue, once every file is done nothing but the post is left,
\* and the posted failures section has every failed file with its reason.
C7_FileFailuresNeverFailSubmission ==
    \A r \in Req :
        LET posts == CallsTo(r, "postIssueComment")
            n == Len(SlackFilesOf(r))
        IN  /\ PayloadType(r) = "view_submission" =>
                /\ pc[r] \in {"resolve", "engine", "fetch", "put"} => idx[r] < n
                /\ pc[r] = "failed" =>
                      /\ Len(posts) = 1
                      /\ ~posts[1].ok
            /\ SubmitEnded(r) =>
                /\ Len(posts) = 1
                /\ posts[1].issueNumber = IssueOf(r)
                /\ Len(uploadedFiles[r]) + Len(uploadErrors[r]) = n
                /\ uploadErrors[r] # <<>> => HasLine(posts[1].body, ErrorsHeading)
                /\ \A i \in 1..Len(uploadErrors[r]) :
                      HasLine(posts[1].body, ErrorLine(uploadErrors[r][i]))

\* C7 witness: both files of a submission failed and the comment was
\* posted to the selected issue.
C7_Witness ==
    \E r \in Req :
        /\ SubmitEnded(r)
        /\ pc[r] = "done"
        /\ Len(SlackFilesOf(r)) = 2
        /\ Len(uploadErrors[r]) = 2
        /\ uploadedFiles[r] = <<>>
        /\ CallsTo(r, "postIssueComment")[1].issueNumber = IssueOf(r)

\* The serialised length of a private_metadata.
MetaLength(meta) == Len(JsonStringifyMeta(meta))

\* C8: every private_metadata passed to views.open has at most 3000
\* characters and has the text, user and channel of the source message;
\* only the file list is reduced.
C8_MetadataWithinLimit ==
    \A r \in Req :
        \A i \in 1..Len(CallsTo(r, "views.open")) :
            LET sent == CallsTo(r, "views.open")[i].private_metadata
                full == BuildMeta(req[r].payload)
            IN  /\ MetaLength(sent) <= PrivateMetadataLimit
                /\ sent.text = full.text
                /\ sent.user = full.user
                /\ sent.channel = full.channel
                /\ Len(sent.files) <= Len(full.files)

\* The steps of the degrade policy as the claim C9 gives them: the file
\* list without download URL and mimetype, with id and name only, and empty.
StatedDegradeSteps(meta) ==
    << [meta EXCEPT !.files =
            [i \in 1..Len(meta.files) |->
                Pick(meta.files[i], {"id", "name", "url_private"})]],
       [meta EXCEPT !.files =
            [i \in 1..Len(meta.files) |-> Pick(meta.files[i], {"id", "name"})]],
       [meta EXCEPT !.files = <<>>] >>

\* The metadata the policy of C9 sends: the undegraded one when it fits,
\* else the first step that fits, else the last step.
StatedDegrade(meta) ==
    LET steps == StatedDegradeSteps(meta)
        fits == {k \in 1..Len(steps) : MetaLength(steps[k]) <= PrivateMetadataLimit}
    IN  IF MetaLength(meta) <= PrivateMetadataLimit THEN meta
        ELSE IF fits = {} THEN steps[Len(steps)]
        ELSE steps[CHOOSE k \in fits : \A j \in fits : k <= j]

\* C9: the metadata passed to views.open is the undegraded one when that
\* is within the limit, and else the result of the first of the steps
\* (drop download URL and mimetype; keep only id and name; drop the file
\* list) whose serialised result is within the limit.
C9_DegradeIsProgressive ==
    \A r \in Req :
        \A i \in 1..Len(CallsTo(r, "views.open")) :
            CallsTo(r, "views.open")[i].private_metadata
                = StatedDegrade(BuildMeta(req[r].payload))

\* The size the chat platform declares for a file of the metadata.
DeclaredSize(f) == SlackFile(f.id).size

\* C10: a file whose declared size exceeds 10 MiB is never fetched, and
\* when handleSubmit has ended with every lookup answered it has an error
\* stating the 10MB limit for its declared size.
C10_OversizeNeverDownloaded ==
    \A r \in Req :
        /\ \A i \in 1..Len(CallsTo(r, "fetch")) :
              FileAtUrl(CallsTo(r, "fetch")[i].url).size <= MAX_FILE_SIZE
        /\ (/\ SubmitEnded(r)
            /\ \A k \in 1..Len(CallsTo(r, "files.info")) :
                  CallsTo(r, "files.info")[k].ok) =>
              \A i \in 1..Len(SlackFilesOf(r)) :
                  LET f == SlackFilesOf(r)[i]
                  IN  DeclaredSize(f) > MAX_FILE_SIZE =>
                          \E j \in 1..Len(uploadErrors[r]) :
                              uploadErrors[r][j].reason
                                  = SizeReason(DeclaredSize(f))

\* The calls of request r for its file number i to one API.
FileCalls(r, api, i) ==
    SelectSeq(calls[r], LAMBDA c : c.api = api /\ c.index = i)

\* Every files.info lookup of request r was answered with the file.
LookupsAnswered(r) ==
    \A k \in 1..Len(CallsTo(r, "files.info")) :
        CallsTo(r, "files.info")[k].answer = "file"

\* The allow-list of C11: image/*, application/pdf and the two Excel types.
AllowListed(mimetype) ==
    \/ mimetype \in {"image/png", "image/jpeg", "image/gif"}
    \/ mimetype = "application/pdf"
    \/ mimetype = "application/vnd.openxmlformats-officedocument.spreadsheetml.sheet"
    \/ mimetype = "application/vnd.ms-excel"

LacksDownloadUrl(f) == ~Has(f, "url_private_download") /\ ~Has(f, "url_private")

\* C12: when the type gate or the download of a file is evaluated and the
\* file of the metadata has an id but no usable download URL or no MIME
\* type, files.info has been called for it and the file the gate sees has
\* the MIME type and the download URL of the platform's file.
C12_LookupFillsGaps ==
    \A r \in Req :
        (PayloadType(r) = "view_submission" /\ pc[r] \in {"engine", "fetch", "put"}) =>
            LET f == CurrentFile(r)
                lookups == FileCalls(r, "files.info", idx[r] + 1)
            IN  (Has(f, "id") /\ (LacksDownloadUrl(f) \/ ~Has(f, "mimetype"))) =>
                    /\ lookups # <<>>
                    /\ lookups[1].ok
                    /\ EngineMimetype(fileInfo[r]) = SlackFile(f.id).mimetype
                    /\ DownloadUrl(fileInfo[r]) = DownloadUrl(SlackFile(f.id))

\* The entries of a sequence that satisfy a test.
Count(seq, Test(_)) == Len(SelectSeq(seq, Test))

\* C13: a files.info lookup that fails ends its file: the file has no
\* fetch, no upload and no further lookup, each failed lookup stands for
\* exactly one recorded error with the lookup's message, every handled file
\* has exactly one result, and handleSubmit ends only with every file of
\* the submission handled.
C13_LookupFailureIsOneError ==
    \A r \in Req :
        PayloadType(r) = "view_submission" =>
            /\ \A k \in 1..Len(calls[r]) :
                  LET c == calls[r][k]
                  IN  (c.api = "files.info" /\ ~c.ok) =>
                          /\ FileCalls(r, "fetch", c.index) = <<>>
                          /\ FileCalls(r, "contents.put", c.index) = <<>>
                          /\ \A j \in (k + 1)..Len(calls[r]) :
                                calls[r][j].api = "postIssueComment"
                                    \/ calls[r][j].index > c.index
            /\ Count(uploadErrors[r], LAMBDA e : e.reason = FilesInfoError)
                  = Count(calls[r], LAMBDA c : c.api = "files.info" /\ ~c.ok)
            /\ Len(uploadedFiles[r]) + Len(uploadErrors[r]) = idx[r]
            /\ SubmitEnded(r) => idx[r] = Len(SlackFilesOf(r))

\* C13 witness: the lookup of the first of two files failed and the second
\* file was uploaded after it.
C13_Witness ==
    \E r \in Req :
        /\ SubmitEnded(r)
        /\ Len(SlackFilesOf(r)) = 2
        /\ FileCalls(r, "files.info", 1) # <<>>
        /\ ~FileCalls(r, "files.info", 1)[1].ok
        /\ uploadErrors[r] # <<>>
        /\ uploadErrors[r][1].reason = FilesInfoError
        /\ FileCalls(r, "contents.put", 2) # <<>>
        /\ FileCalls(r, "contents.put", 2)[1].ok

\* C14: a file whose download delivered more than 10 MiB has no contents
\* upload; it is recorded as an error that states the 10MB limit with the
\* delivered size, and the upload position is reached only after a download
\* within the cap.
C14_OversizeDownloadNeverUploaded ==
    \A r \in Req :
        /\ \A k \in 1..Len(CallsTo(r, "fetch")) :
              LET c == CallsTo(r, "fetch")[k]
              IN  (c.ok /\ c.bytes > 10 * 1024 * 1024) =>
                      /\ FileCalls(r, "contents.put", c.index) = <<>>
                      /\ idx[r] >= c.index
                      /\ \E j \in 1..Len(uploadErrors[r]) :
                            uploadErrors[r][j].reason = SizeReason(c.bytes)
        /\ pc[r] = "put" =>
              LET f == FileCalls(r, "fetch", idx[r] + 1)
              IN  Len(f) = 1 /\ f[1].ok /\ f[1].bytes <= 10 * 1024 * 1024

\* C14 witness: a file declared with 2048 bytes delivered more than 10 MiB
\* and the submission has ended.
C14_Witness ==
    \E r \in Req :
        /\ SubmitEnded(r)
        /\ \E k \in 1..Len(CallsTo(r, "fetch")) :
              LET c == CallsTo(r, "fetch")[k]
              IN  /\ c.ok
                  /\ c.bytes > 10 * 1024 * 1024
                  /\ FileAtUrl(c.url).size = 2048

\* C15: a download answered with HTML or with a status that is not OK has
\* no contents upload for its file, and the file is recorded as an error
\* whose reason says what the response was.
C15_HtmlOrNotOkIsAnError ==
    \A r \in Req :
        \A k \in 1..Len(CallsTo(r, "fetch")) :
            LET c == CallsTo(r, "fetch")[k]
            IN  c.outcome \in {"html", "http_error"} =>
                    /\ ~c.ok
                    /\ FileCalls(r, "contents.put", c.index) = <<>>
                    /\ idx[r] >= c.index
                    /\ \E j \in 1..Len(uploadErrors[r]) :
                          /\ uploadErrors[r][j].filename
                                = EngineFilename(FileAtUrl(c.url))
                          /\ uploadErrors[r][j].reason =
                                IF c.outcome = "html"
                                THEN "Slack returned HTML instead of file: <!DOCTYPE html>"
                                ELSE "Slack download failed: 404 Not Found"

\* C15 witness: the download of a file was answered with HTML and the
\* submission has ended with that file as an error.
C15_Witness ==
    \E r \in Req :
        /\ SubmitEnded(r)
        /\ \E k \in 1..Len(CallsTo(r, "fetch")) :
              CallsTo(r, "fetch")[k].outcome = "html"
        /\ \E j \in 1..Len(uploadErrors[r]) :
              uploadErrors[r][j].reason
                  = "Slack returned HTML instead of file: <!DOCTYPE html>"

\* C16: for each file of a submission at most one fetch and at most one
\* contents upload are issued, and a fetch or an upload that fails is the
\* last call for its file, which is then done with as many errors recorded
\* as files failed.
C16_SingleAttempt ==
    \A r \in Req :
        /\ PayloadType(r) = "view_submission" =>
              \A i \in 1..Len(SlackFilesOf(r)) :
                  /\ Len(FileCalls(r, "fetch", i)) <= 1
                  /\ Len(FileCalls(r, "contents.put", i)) <= 1
        /\ \A k \in 1..Len(calls[r]) :
              LET c == calls[r][k]
              IN  (c.api \in {"fetch", "contents.put"} /\ ~c.ok) =>
                      /\ idx[r] >= c.index
                      /\ \A j \in (k + 1)..Len(calls[r]) :
                            calls[r][j].api = "postIssueComment"
                                \/ calls[r][j].index > c.index
        /\ Count(calls[r], LAMBDA c : c.api \in {"fetch", "contents.put"} /\ ~c.ok)
              <= Len(uploadErrors[r])

\* C16 witness: of two files the download of one and the upload of the
\* other failed, each after a single attempt, and the submission has ended.
C16_Witness ==
    \E r \in Req :
        /\ SubmitEnded(r)
        /\ Len(SlackFilesOf(r)) = 2
        /\ Len(FileCalls(r, "fetch", 1)) = 1
        /\ ~FileCalls(r, "fetch", 1)[1].ok
        /\ Len(FileCalls(r, "contents.put", 2)) = 1
        /\ ~FileCalls(r, "contents.put", 2)[1].ok
        /\ Len(uploadErrors[r]) = 2

\* The stages of a file inside uploadSlackFileToGitHub.
EngineStages == {"engine", "fetch", "put"}

\* The entry a step has just appended to the error list of r.
NewError(r) == uploadErrors'[r][Len(uploadErrors'[r])]

\* C17: uploadSlackFileToGitHub never lets an exception escape.  Whatever
\* the descriptor it is given (fields missing, or the empty result of a
\* lookup) and whatever fails in download, configuration or upload, the
\* failure of a file inside the function is the UploadError the function
\* returns, whose filename is file.name ?? "file" of its input, and not an
\* exception recorded by the catch of the caller under the name of the
\* payload file.
C17_EngineReturnsItsErrors ==
    [][\A r \in Req :
        (pc[r] \in EngineStages /\ Len(uploadErrors'[r]) = Len(uploadErrors[r]) + 1)
            => NewError(r).filename = EngineFilename(fileInfo[r])]_vars

\* The same, for the descriptors that are objects.
C17_DefinedDescriptorsReturnErrors ==
    [][\A r \in Req :
        (pc[r] \in EngineStages /\ fileInfo[r] # Undefined
            /\ Len(uploadErrors'[r]) = Len(uploadErrors[r]) + 1)
            => NewError(r).filename = EngineFilename(fileInfo[r])]_vars

\* Request r is a message_action whose views.open call failed.
OpenModalFailed(r) ==
    /\ PayloadType(r) = "message_action"
    /\ pc[r] = "done"
    /\ \E k \in 1..Len(CallsTo(r, "views.open")) : ~CallsTo(r, "views.open")[k].ok

\* C18: when the views.open call of a message_action fails, the failure is
\* only logged: the request is answered with an empty 200 and views.open is
\* not called a second time.
C18_OpenFailureIsOnlyLogged ==
    \A r \in Req :
        OpenModalFailed(r) =>
            /\ response[r] = [status |-> 200, body |-> ""]
            /\ Len(CallsTo(r, "views.open")) = 1

\* The part of C18 about retries: a failed views.open is the only one.
C18_OpenFailureIsNotRetried ==
    \A r \in Req : OpenModalFailed(r) => Len(CallsTo(r, "views.open")) = 1

\* The APIs of the file pipeline and of the comment.
PipelineApis == {"files.info", "fetch", "contents.put", "postIssueComment"}

\* C19: a message_action request that has been handled has made exactly
\* one views.open call, with its own trigger_id, and no call of the file
\* pipeline or of the comment; a request of any other type (view_submission
\* or unknown) makes no views.open call at any time.  This holds of every
\* request that gets past the signature gate, the verified ones among them.
C19_TriggerUsedOnce ==
    \A r \in Req :
        /\ (PayloadType(r) = "message_action" /\ pc[r] = "done"
                /\ response[r].status # 401) =>
              /\ Len(CallsTo(r, "views.open")) = 1
              /\ CallsTo(r, "views.open")[1].trigger_id = req[r].payload.trigger_id
        /\ PayloadType(r) = "message_action" =>
              \A k \in 1..Len(calls[r]) : calls[r][k].api \notin PipelineApis
        /\ PayloadType(r) # "message_action" => CallsTo(r, "views.open") = <<>>

\* C19 witness: a verified message_action has opened its modal with one
\* views.open call while a submission has run its pipeline to the comment
\* without one.
C19_Witness ==
    \E r, q \in Req :
        /\ PayloadType(r) = "message_action" /\ pc[r] = "done"
        /\ req[r].verdict = "true"
        /\ Len(CallsTo(r, "views.open")) = 1 /\ CallsTo(r, "views.open")[1].ok
        /\ SubmitEnded(q)
        /\ CallsTo(q, "postIssueComment") # <<>>
        /\ CallsTo(q, "views.open") = <<>>

\* The names under which a file of the metadata of r can show in a list.
OwnNames(r) ==
    UNION {{EngineFilename(Resolved(SlackFilesOf(r)[i])),
            CatchFilename(SlackFilesOf(r)[i])} : i \in 1..Len(SlackFilesOf(r))}

\* The URLs from which a file of the metadata of r is downloaded.
OwnUrls(r) ==
    {DownloadUrl(Resolved(SlackFilesOf(r)[i])) : i \in 1..Len(SlackFilesOf(r))}

\* The ids of the files of the metadata of r.
OwnIds(r) ==
    {Coalesce(SlackFilesOf(r)[i], "id", "") : i \in 1..Len(SlackFilesOf(r))}

\* An outbound call of r is about the issue and the metadata of r.
OwnCall(r, c) ==
    CASE c.api = "files.info" -> c.file \in OwnIds(r)
      [] c.api = "fetch" -> c.url \in OwnUrls(r)
      [] c.api = "contents.put" ->
            \E n \in OwnNames(r) : c.path = EncodedPath(IssueOf(r), n)
      [] c.api = "postIssueComment" ->
            /\ c.issueNumber = IssueOf(r)
            /\ c.body = ComposedComment(r)
      [] OTHER -> FALSE

\* C20: requests are independent units of work.  In every interleaving of
\* two submissions, the pipeline of one still running when the other is
\* handled, the uploaded list and the error list of a submission hold one
\* entry for each of its own files handled so far and nothing else, its
\* calls are about its own files and its own issue, and its comment is
\* composed from its own text and lists and posted to its own issue.
C20_SubmissionsAreIndependent ==
    \A r \in Req :
        IF PayloadType(r) = "view_submission"
        THEN /\ Len(uploadedFiles[r]) + Len(uploadErrors[r]) = idx[r]
             /\ idx[r] <= Len(SlackFilesOf(r))
             /\ \A j \in 1..Len(uploadedFiles[r]) :
                   /\ uploadedFiles[r][j].filename \in OwnNames(r)
                   /\ uploadedFiles[r][j].url =
                          PreviewUrl(IssueOf(r), uploadedFiles[r][j].filename)
             /\ \A j \in 1..Len(uploadErrors[r]) :
                   uploadErrors[r][j].filename \in OwnNames(r)
             /\ \A k \in 1..Len(calls[r]) : OwnCall(r, calls[r][k])
        ELSE uploadedFiles[r] = <<>> /\ uploadErrors[r] = <<>>

\* C20 witness: two submissions of different modals to different issues,
\* both answered, the second handled while the pipeline of the first was
\* in the middle of a file, and both with results in their lists at the
\* end.
C20_Witness ==
    /\ PayloadType("r1") = "view_submission"
    /\ PayloadType("r2") = "view_submission"
    /\ MetaOf("r1") # MetaOf("r2")
    /\ IssueOf("r1") # IssueOf("r2")
    /\ response["r1"].status = 200 /\ response["r2"].status = 200
    /\ pc["r1"] \in EngineStages
    /\ pc["r2"] = "done"
    /\ uploadedFiles["r1"] # <<>>
    /\ uploadErrors["r2"] # <<>>

\* obj.key is defined exactly when src.from is, and then equal to it.
Carries(obj, key, src, from) ==
    IF from \in DOMAIN src
    THEN key \in DOMAIN obj /\ obj[key] = src[from]
    ELSE key \notin DOMAIN obj

\* The file f of a bundle has the id, name, download URL and MIME type of
\* the file g of the message, and nothing else.
SameFileRef(f, g) ==
    /\ DOMAIN f \subseteq {"id", "name", "url_private_download", "mimetype"}
    /\ \A k \in {"id", "name", "url_private_download", "mimetype"} :
          Carries(f, k, g, k)

\* The bundle of payload, with every file as captured, fits the limit.
Undegraded(payload) ==
    Len(JsonStringifyMetaLinked(BuildMetaLinked(payload))) <= MetadataSafeLimit

PayloadTypeAfter(r) == Coalesce(req'[r].payload, "type", "undefined")

\* C22: degradation and submission handling leave their inputs unchanged.
\* The payload of a message_action keeps the message as it came in, with
\* every file object as it was, whatever list the metadata of the modal
\* got; the payload of a request and the metadata parsed from it are
\* never written after the request has come in, through every step of the
\* transfer of the files; and the metadata of a modal that is open is not
\* changed either.
C22_InputsUnchanged ==
    [][\A r \in Req :
        /\ req[r] # NoRequest => req'[r] = req[r]
        /\ PayloadTypeAfter(r) = "message_action" =>
              req'[r].payload.message = message'
        /\ message' = message
        /\ modals \subseteq modals']_vars

\* C22 witness: the modal of a message was opened with a degraded file
\* list, and the submission that echoes it has transferred a file.
C22_Witness ==
    \E r, q \in Req :
        /\ PayloadType(r) = "message_action"
        /\ CallsTo(r, "views.open") # <<>>
        /\ CallsTo(r, "views.open")[1].private_metadata.files
              # ProjectedFiles(req[r].payload)
        /\ req[r].payload.message.files # <<>>
        /\ SubmitEnded(q)
        /\ idx[q] >= 1
        /\ CallsTo(q, "files.info") # <<>>

\* C23: formatIssueComment renders the placeholder line for a message with
\* no text whenever the text is empty, and renders no placeholder when the
\* text is not empty.
C23_PlaceholderIffEmptyText ==
    cOut # NoInput =>
        (HasLine(cOut.body, NoTextPlaceholder) <=> cIn.text = <<"">>)

\* The part of C23 about a text that is not empty: no placeholder.
C23_NoPlaceholderForText ==
    (cOut # NoInput /\ cIn.text # <<"">>) => ~HasLine(cOut.body, NoTextPlaceholder)

\* The input of the composition is a message with no files: nothing was
\* uploaded and nothing failed.
NoFilesComposed == cOut # NoInput /\ cIn.uploaded = <<>> /\ cIn.errors = <<>>

\* The last k lines of a comment.
LastLines(comment, k) == SubSeq(comment, Len(comment) - k + 1, Len(comment))

Target(f) == "[" \o f.filename \o "](" \o f.url \o ")"

\* The line C25 states for an uploaded file.
StatedAttachmentLine(f) ==
    CASE f.mimetype \in {"image/png", "image/jpeg", "image/gif"} -> "!" \o Target(f)
      [] f.mimetype = "application/pdf" -> "[pdf] " \o Target(f)
      [] f.mimetype \in
            {"application/vnd.openxmlformats-officedocument.spreadsheetml.sheet",
             "application/vnd.ms-excel", "text/csv"} -> "[sheet] " \o Target(f)
      [] f.filename \in {"book.xlsx", "book.xls", "data.csv"} -> "[sheet] " \o Target(f)
      [] OTHER -> "[file] " \o Target(f)

\* The lines of a comment that follow its line l, up to the next empty
\* line or the end.
SectionAfter(comment, l) ==
    LET p == CHOOSE i \in 1..Len(comment) : comment[i] = l
        ends == {j \in (p + 1)..Len(comment) : comment[j] = ""}
        last == IF ends = {} THEN Len(comment)
                ELSE (CHOOSE j \in ends : \A k \in ends : j <= k) - 1
    IN  SubSeq(comment, p + 1, last)

StatedErrorLine(e) == "- '" \o e.filename \o "': " \o e.reason

\* C26: the comment has the section of the files that could not be
\* uploaded if and only if the error list is not empty, and the section
\* then has exactly one line per failed file, in the order of the list.
C26_ErrorSectionIffErrors ==
    cOut # NoInput =>
        /\ HasLine(cOut.body, ErrorsHeading) <=> cIn.errors # <<>>
        /\ cIn.errors # <<>> =>
              SectionAfter(cOut.body, ErrorsHeading)
                  = [i \in 1..Len(cIn.errors) |-> StatedErrorLine(cIn.errors[i])]

\* C26 witness: two files failed and the comment lists both, in order,
\* under the heading.
C26_Witness ==
    /\ cOut # NoInput
    /\ Len(cIn.errors) = 2
    /\ cIn.errors[1] # cIn.errors[2]
    /\ HasLine(cOut.body, ErrorsHeading)
    /\ Len(SectionAfter(cOut.body, ErrorsHeading)) = 2

\* C26 witness of the other direction: no file failed and the comment has
\* no such heading, although files were uploaded.
C26_WitnessNoErrors ==
    /\ cOut # NoInput
    /\ cIn.errors = <<>>
    /\ cIn.uploaded # <<>>
    /\ ~HasLine(cOut.body, ErrorsHeading)

\* The two link lines C27 speaks of, for the channel C1, the team T1 of
\* domain acme and the message of timestamp MessageTs.
ArchiveLinkLine ==
    "**Original message**: [View in Slack]"
        \o "(https://acme.slack.com/archives/C1/p1700000000000100)  "

ClientLinkLine ==
    "**Original message**: [View in Slack]"
        \o "(https://app.slack.com/client/T1/C1/message/1700000000.000100)  "

\* The line of the comment that follows the channel line.
LineAfterChannel(comment) == comment[5]

\* C27: the comment links back to the message if and only if the channel id
\* and the message timestamp are present together with a team domain or a
\* team id; with a team domain (and a team id) the archive link is used, and
\* with neither no link is rendered.
C27_LinkBackIffPlaceKnown ==
    cOut # NoInput =>
        LET place == Has(cMeta, "channelId") /\ Has(cMeta, "messageTs")
            linked == HasLine(cOut.body, ArchiveLinkLine)
                        \/ HasLine(cOut.body, ClientLinkLine)
        IN  /\ linked <=> (place /\ (Has(cMeta, "teamDomain") \/ Has(cMeta, "teamId")))
            /\ (place /\ Has(cMeta, "teamDomain") /\ Has(cMeta, "teamId")) =>
                  /\ LineAfterChannel(cOut.body) = ArchiveLinkLine
                  /\ ~HasLine(cOut.body, ClientLinkLine)
            /\ ~linked => LineAfterChannel(cOut.body) = ""

\* C27 witness: the payload had a team with id and domain and a message
\* timestamp, and the comment carries the archive link.
C27_Witness ==
    /\ cOut # NoInput
    /\ "team" \in DOMAIN cIn /\ "domain" \in DOMAIN cIn.team
    /\ "ts" \in DOMAIN cIn.message
    /\ Has(cMeta, "teamDomain") /\ Has(cMeta, "teamId")
    /\ LineAfterChannel(cOut.body) = ArchiveLinkLine

\* C27 witness of the client link: a team id without a domain.
C27_WitnessTeamIdOnly ==
    /\ cOut # NoInput
    /\ Has(cMeta, "teamId") /\ ~Has(cMeta, "teamDomain") /\ Has(cMeta, "messageTs")
    /\ LineAfterChannel(cOut.body) = ClientLinkLine

\* C27 witness of no link: a timestamp but no team, and a team but no
\* timestamp.
C27_WitnessNoTeam ==
    /\ cOut # NoInput
    /\ Has(cMeta, "messageTs") /\ ~Has(cMeta, "teamId") /\ ~Has(cMeta, "teamDomain")
    /\ LineAfterChannel(cOut.body) = ""

C27_WitnessNoTimestamp ==
    /\ cOut # NoInput
    /\ ~Has(cMeta, "messageTs") /\ Has(cMeta, "teamDomain")
    /\ LineAfterChannel(cOut.body) = ""

\* README.md:25 and :33-39: the repository the assets are stored in.
DocumentedAssetsRepo ==
    IF Has(env, "GITHUB_ASSETS_REPO") THEN env.GITHUB_ASSETS_REPO
    ELSE env.GITHUB_REPO

\* README.md:26: the branch of that repository.
DocumentedAssetsBranch ==
    IF Has(env, "GITHUB_ASSETS_REPO") /\ Has(env, "GITHUB_ASSETS_BRANCH")
    THEN env.GITHUB_ASSETS_BRANCH
    ELSE "main"

DocumentedUrl(issueNumber, filename) ==
    "https://github.com/" \o env.GITHUB_OWNER \o "/" \o DocumentedAssetsRepo
        \o "/raw/" \o DocumentedAssetsBranch \o "/"
        \o EncodedPath(issueNumber, filename)

\* C29: an asset is committed to GITHUB_ASSETS_REPO when that variable is
\* set and to GITHUB_REPO when it is not, and the URL of an uploaded file
\* names the repository and branch of the configuration.
C29_AssetsFollowConfiguration ==
    \A r \in Req :
        /\ \A i \in 1..Len(calls[r]) :
              calls[r][i].api = "contents.put" =>
                  calls[r][i].repo = DocumentedAssetsRepo
        /\ \A j \in 1..Len(uploadedFiles[r]) :
              uploadedFiles[r][j].url
                  = DocumentedUrl(IssueOf(r), uploadedFiles[r][j].filename)

\* C29, the part that holds: without GITHUB_ASSETS_REPO the asset goes to
\* GITHUB_REPO and its URL names that repository and the branch main.
C29_DefaultRepository ==
    ~Has(env, "GITHUB_ASSETS_REPO") => C29_AssetsFollowConfiguration

\* C29: a file was uploaded under a configuration without
\* GITHUB_ASSETS_REPO.
C29_WitnessDefault ==
    /\ ~Has(env, "GITHUB_ASSETS_REPO")
    /\ \E r \in Req : uploadedFiles[r] # <<>>

\* The request of r was answered by neither acting branch: its payload is
\* absent or of another type than message_action and view_submission.
OtherType(r) ==
    /\ req[r] # NoRequest
    /\ PayloadType(r) \notin {"message_action", "view_submission"}

\* C30: a verified request whose payload is absent or of a type other than
\* message_action and view_submission is answered with an empty 200 and
\* makes no downstream call; only the two types make calls.
C30_OtherTypesOnlyAcknowledged ==
    \A r \in Req :
        /\ (OtherType(r) /\ req[r].verdict = "true") =>
              /\ pc[r] = "done"
              /\ response[r] = [status |-> 200, body |-> ""]
              /\ calls[r] = <<>>
              /\ uploadedFiles[r] = <<>> /\ uploadErrors[r] = <<>>
        /\ (req[r] # NoRequest /\ calls[r] # <<>>) =>
              PayloadType(r) \in {"message_action", "view_submission"}

\* C30: such a request never changes the set of open modals either.
C30_OtherTypesLeaveModals ==
    [][\A r \in Req :
          (req[r] = NoRequest /\ req'[r] # NoRequest
              /\ Coalesce(req'[r].payload, "type", "undefined")
                    \notin {"message_action", "view_submission"})
            => (modals' = modals /\ calls' = calls)]_vars

\* C30 witness: a verified block_actions request and a verified request
\* without payload were both acknowledged and made no call.
C30_Witness ==
    /\ \A r \in Req : pc[r] = "done" /\ req[r].verdict = "true"
    /\ PayloadType("r1") = "block_actions"
    /\ PayloadType("r2") = "undefined"
    /\ response["r2"] = [status |-> 200, body |-> ""]
    /\ calls["r2"] = <<>>

\* The race of downloadFile.ts:96 is over.
RaceOver == dl.pc \in {"reading", "returned", "thrown"} /\ dl.fetch # "none"

C31_ClearedTimerNeverFires ==
    [][dl.timer = "cleared" => dl'.timer = "cleared"]_vars

C31_WitnessFetchFirst ==
    dl.pc = "returned" /\ dl.fetch = "resolved" /\ dl.timer = "cleared"

\* C37: when downloadSlackFile has returned or thrown, neither the fetch
\* timer nor the idle timer of the stream is still armed.
C37_NoTimerLeftArmed ==
    dl.pc \in {"returned", "thrown"} =>
        dl.timer # "armed" /\ dl.streamTimer # "armed"

\* C37, the part that holds: the fetch timer is never armed at an exit, and
\* the idle timer is not armed after a return or after a throw that came
\* before the stream was read.
C37_TimersClearedExceptOnStreamFailure ==
    dl.pc \in {"returned", "thrown"} =>
        /\ dl.timer # "armed"
        /\ (dl.pc = "returned" \/ dl.res # "ok") => dl.streamTimer # "armed"

\* C37: the download returned after the whole body was read.
C37_WitnessReturned ==
    dl.pc = "returned" /\ dl.chunks = MaxChunks /\ dl.streamTimer = "cleared"


\* C32: in the route that handles the submission before it answers, what
\* handleSubmit throws (on metadata that does not parse, on a comment the
\* tracker refused) becomes the 200 response {response_action: "errors",
\* errors: {issue: message}} with the message of what was thrown, and the
\* response {response_action: "clear"} is given only when the comment was
\* posted.
C32_ExceptionsBecomeErrorsResponse ==
    cRes # NoInput =>
        /\ cRes.response.status = 200
        /\ ~cRes.parsed => cRes.thrown = JsonSyntaxError
        /\ (cRes.parsed /\ ~cRes.posted) => cRes.thrown = PostCommentError
        /\ cRes.thrown # "" =>
              cRes.response.json = [response_action |-> "errors",
                                    errors |-> [issue |-> cRes.thrown]]
        /\ cRes.response.json.response_action = "clear" =>
              /\ cRes.parsed /\ cRes.posted
              /\ cRes.calls[Len(cRes.calls)].api = "issues.createComment"

\* C32 witness: a submission whose comment the tracker refused, after a
\* file of it was uploaded, was answered with the message of the refusal.
C32_Witness ==
    /\ cRes # NoInput
    /\ cRes.parsed /\ ~cRes.posted
    /\ cRes.uploaded # <<>>
    /\ cRes.response.json.response_action = "errors"
    /\ cRes.response.json.errors.issue = PostCommentError

\* C32 witness: a submission whose metadata did not parse was answered with
\* the message of the parser, and no call was made.
C32_WitnessUnparsable ==
    /\ cRes # NoInput
    /\ ~cRes.parsed
    /\ cRes.calls = <<>>
    /\ cRes.response.json.response_action = "errors"

\* C32 witness: a submission was cleared after its comment was posted,
\* although the lookup of one of its files had failed.
C32_WitnessClear ==
    /\ cRes # NoInput
    /\ cRes.posted
    /\ \E i \in 1..Len(cRes.errors) : cRes.errors[i].reason = FilesInfoError
    /\ cRes.response.json.response_action = "clear"


\* C34: in the submission that stages files in temporary storage, a file
\* whose upload succeeded is recorded only as uploaded: whatever becomes
\* of the deletion of its staged copy, no file is both in the list of the
\* uploaded files and in the list of the failures.
C34_UploadedOnlyAsUploaded ==
    cRes # NoInput =>
        \A i \in 1..Len(cRes.uploaded), j \in 1..Len(cRes.errors) :
            cRes.uploaded[i].filename # cRes.errors[j].filename

\* C34: a file is in both lists only when the deletion of its staged copy
\* threw after the upload had succeeded.
C34_BothOnlyAfterFailedDelete ==
    cRes # NoInput =>
        \A i \in 1..Len(cRes.uploaded), j \in 1..Len(cRes.errors) :
            cRes.uploaded[i].filename = cRes.errors[j].filename
                => cRes.errors[j].reason = "Blob delete failed"


\* A file of the metadata that has no download URL and for which the
\* platform has none either.
WithoutUrlLinked(file) ==
    /\ ~Has(file, "url_private_download") /\ ~Has(file, "url_private")
    /\ Has(file, "id") =>
          /\ ~Has(SlackFile(file.id), "url_private_download")
          /\ ~Has(SlackFile(file.id), "url_private")

\* The file has an entry in one of the two lists of the submission.
AccountedLinked(file) ==
    \/ \E k \in 1..Len(cRes.uploaded) : cRes.uploaded[k].filename = file.name
    \/ \E k \in 1..Len(cRes.errors) : cRes.errors[k].filename = file.name

\* C40: a file that still has no download URL after the lookup is never
\* fetched: no request is made for its content, it is recorded in the
\* list of the failures, and the files after it are processed.
C40_NoUrlNeverFetched ==
    (cRes # NoInput /\ cRes.parsed) =>
        \A i \in 1..Len(cOut.slackFiles) :
            WithoutUrlLinked(cOut.slackFiles[i]) =>
                /\ \A k \in 1..Len(cRes.calls) :
                      cRes.calls[k].api \in {"blob.store", "contents.put"}
                          => cRes.calls[k].file # cOut.slackFiles[i].id
                /\ \E k \in 1..Len(cRes.errors) :
                      cRes.errors[k].filename = cOut.slackFiles[i].name
                /\ \A k \in 1..Len(cRes.uploaded) :
                      cRes.uploaded[k].filename # cOut.slackFiles[i].name
                /\ \A j \in (i + 1)..Len(cOut.slackFiles) :
                      AccountedLinked(cOut.slackFiles[j])

\* C40 witness: the lookup of the first file answered without a URL, the
\* file was recorded with the reason of the missing URL, and the file
\* after it was fetched and uploaded.
C40_Witness ==
    /\ cRes # NoInput /\ cRes.parsed
    /\ Len(cOut.slackFiles) = 2
    /\ WithoutUrlLinked(cOut.slackFiles[1])
    /\ cRes.errors = <<ErrorLinked("gone.png", NoDownloadUrlLinked)>>
    /\ Len(cRes.uploaded) = 1 /\ cRes.uploaded[1].filename = "img.png"
    /\ \E k \in 1..Len(cRes.calls) :
          cRes.calls[k].api = "blob.store" /\ cRes.calls[k].file = "F1"

\* C40, in downloadSlackFile: a call that ends for want of a download URL
\* has sent no request and set no timer, and its caller records an
\* UploadError.
C40_NoUrlNoRequest ==
    (dl # NoInput /\ dl.pc = "thrown" /\ dl.downloadUrl = "") =>
        /\ dl.fetch = "none" /\ dl.timer = "unset" /\ dl.authorization = ""
        /\ DownloadResult.kind = "error"

\* C40 witness, in downloadSlackFile: the call for a file without an id
\* and without a URL ended with the error of the missing URL.
C40_WitnessNoId ==
    /\ dl # NoInput /\ dl.pc = "thrown"
    /\ ~Has(dl.file, "id")
    /\ dl.lookups = 0
    /\ dl.error = "No download URL for file: lost.png"


\* C39: the freshness check rejects every timestamp header that is not a
\* number within 300 s of now: a request whose timestamp header is not
\* numeric is rejected by verifySlackRequest whatever its signature.
C39_NonNumericTimestampRejected ==
    (vOut # "none" /\ vTs # Null /\ ~WithinReplayWindow(vTs)) => vOut = "false"

\* C39: a timestamp header that is a number outside the window is rejected
\* whatever the signature, and one that is not a number is accepted only
\* with the signature of its own base string.
C39_NumericStaleRejected ==
    (vOut # "none" /\ vTs # Null /\ ~WithinReplayWindow(vTs)) =>
        IF Number(vTs).nan
        THEN vOut = "true" <=>
                vSig = ExpectedSignature(SLACK_SIGNING_SECRET, vTs, vBody)
        ELSE vOut = "false"


\* The increasing sequences of k of the indices 1..n.
IndexSeqs(n, k) ==
    {q \in [1..k -> 1..n] : \A a, b \in 1..k : a < b => q[a] < q[b]}

\* The names under which a file of the metadata can be recorded: its own,
\* the one the platform has for its id, or its id.
RecordedNames(file) ==
    {EngineFilename(file), CatchFilename(file)}
        \cup (IF Has(file, "id") THEN {EngineFilename(SlackFile(file.id))} ELSE {})

\* The two lists of request r are the files 1..n of its metadata, each in
\* one list and once, both lists in the order of the metadata.
AccountedOnce(r, n) ==
    LET files == SlackFilesOf(r)
    IN  /\ Len(uploadedFiles[r]) + Len(uploadErrors[r]) = n
        /\ \E u \in IndexSeqs(n, Len(uploadedFiles[r])),
              e \in IndexSeqs(n, Len(uploadErrors[r])) :
              /\ {u[k] : k \in DOMAIN u} \cap {e[k] : k \in DOMAIN e} = {}
              /\ {u[k] : k \in DOMAIN u} \cup {e[k] : k \in DOMAIN e} = 1..n
              /\ \A k \in DOMAIN u :
                    uploadedFiles[r][k].filename \in RecordedNames(files[u[k]])
              /\ \A k \in DOMAIN e :
                    uploadErrors[r][k].filename \in RecordedNames(files[e[k]])

\* C33: once handleSubmit is through a metadata file list of N files, every
\* file is accounted for exactly once: each is in the uploaded list or in
\* the error list and in one only, the lengths of the two sum to N, and
\* each list has its files in the order of the metadata.
C33_EveryFileAccountedOnce ==
    \A r \in Req :
        PayloadType(r) = "view_submission" =>
            /\ AccountedOnce(r, idx[r])
            /\ pc[r] \in {"post", "done", "failed"} =>
                  idx[r] = Len(SlackFilesOf(r))

\* C33 witness: a submission of two files is through its list with the
\* first file uploaded and the second in the error list.
C33_Witness ==
    \E r \in Req :
        /\ PayloadType(r) = "view_submission" /\ pc[r] = "done"
        /\ Len(SlackFilesOf(r)) = 2
        /\ Len(uploadedFiles[r]) = 1 /\ uploadedFiles[r][1].filename = "img.png"
        /\ Len(uploadErrors[r]) = 1 /\ uploadErrors[r][1].filename = "a.zip"

\* C33 witness: a submission of two files is through its list with both
\* files in the error list, in the order of the metadata.
C33_WitnessTwoErrors ==
    \E r \in Req :
        /\ PayloadType(r) = "view_submission" /\ pc[r] = "done"
        /\ Len(SlackFilesOf(r)) = 2
        /\ uploadedFiles[r] = <<>>
        /\ Len(uploadErrors[r]) = 2
        /\ uploadErrors[r][1].filename = "img.png"
        /\ uploadErrors[r][2].filename = "a.zip"


\* The calls of request r that are made for a file of its list.
CallsForFiles(r) == SelectSeq(calls[r], LAMBDA c : "index" \in DOMAIN c)

\* The calls of request r for its files are made file after file in the
\* order of the list, no file's content is requested or uploaded twice,
\* and no call is made for a file the loop is not yet at.
VisitedInOrder(r) ==
    LET cs == CallsForFiles(r)
    IN  /\ \A a, b \in 1..Len(cs) : a < b => cs[a].index <= cs[b].index
        /\ \A a, b \in 1..Len(cs) :
              (a < b /\ cs[a].index = cs[b].index /\ cs[a].api = cs[b].api)
                  => cs[a].api = "files.info"
        /\ \A a \in 1..Len(cs) :
              cs[a].index <= (IF pc[r] \in {"post", "done", "failed"}
                              THEN idx[r] ELSE idx[r] + 1)
        /\ \A a \in 1..Len(calls[r]) :
              calls[r][a].api = "postIssueComment" => a = Len(calls[r])

\* C35: when every external call returns or fails, handleSubmit comes to
\* its end for every file list: the files are visited once each, one after
\* the other in the order of the list, and the handler then posts the
\* comment.
C35_SubmitTerminates ==
    /\ [](\A r \in Req : VisitedInOrder(r))
    /\ \A r \in Req :
          (PayloadType(r) = "view_submission" /\ pc[r] # "idle")
              ~> /\ SubmitEnded(r)
                 /\ idx[r] = Len(SlackFilesOf(r))
                 /\ Len(CallsTo(r, "postIssueComment")) = 1

\* C35 witness: a submission of two files has ended after the content of
\* the first and then of the second was requested and the comment posted.
C35_Witness ==
    \E r \in Req :
        /\ PayloadType(r) = "view_submission" /\ pc[r] = "done"
        /\ Len(SlackFilesOf(r)) = 2
        /\ LET fetches == CallsTo(r, "fetch")
           IN  /\ Len(fetches) = 2
               /\ fetches[1].index = 1 /\ fetches[2].index = 2
        /\ calls[r][Len(calls[r])].api = "postIssueComment"


\* The URL of the k-th call of request r came from a files.info response:
\* a lookup of the same file was answered with the file before the call.
UrlFromLookup(r, k) ==
    \E j \in 1..(k - 1) :
        /\ calls[r][j].api = "files.info"
        /\ calls[r][j].index = calls[r][k].index
        /\ calls[r][j].answer = "file"

\* The metadata of submission r is that of a modal opened for a
\* message_action that passed the signature check, and the submission
\* passed it as well.
UrlFromVerifiedAction(r) ==
    /\ req[r].verdict = "true"
    /\ \E q \in Req :
          /\ PayloadType(q) = "message_action"
          /\ req[q].verdict = "true"
          /\ ModalMetadata(req[q].payload) = MetaOf(r)

\* C38: the bearer token of the bot is sent only with download requests
\* whose URL came from a message_action that passed the signature check
\* (through the metadata of its modal) or from a files.info response; no
\* request that failed the check chooses the URL the token is sent to.
C38_CredentialOnlyToVerifiedUrls ==
    \A r \in Req :
        \A k \in 1..Len(calls[r]) :
            (calls[r][k].api = "fetch" /\ calls[r][k].authorization # "") =>
                UrlFromLookup(r, k) \/ UrlFromVerifiedAction(r)

\* C38: the token is sent only to the download URL of the file of the
\* metadata the loop is at, or to the one the lookup of that file gave.
C38_CredentialOnlyToFileUrls ==
    \A r \in Req :
        \A k \in 1..Len(calls[r]) :
            (calls[r][k].api = "fetch" /\ calls[r][k].authorization # "") =>
                LET file == SlackFilesOf(r)[calls[r][k].index]
                IN  \/ calls[r][k].url = DownloadUrl(file)
                    \/ /\ UrlFromLookup(r, k)
                       /\ calls[r][k].url = DownloadUrl(SlackFile(file.id))


\* The fetch attempts of the call that have ended, and how.
FailedAttempt(outcome) == outcome \in {"thrown", "aborted"}

\* The loop of the retrying download has been left.
LoopLeft == dl.pc \in {"reading", "returned", "thrown"}

\* C36 (what holds in every state): the retrying download makes at most
\* 1 + maxRetries = 3 fetch attempts; an attempt is followed by another
\* only when its fetch threw or was aborted, never when it was answered,
\* whatever the status of the answer; each attempt runs under a timer of
\* its own, set after the attempt before it had ended; and when the last
\* attempt has failed the function throws.
RetryDiscipline ==
    /\ dl.attempts <= MaxRetries + 1
    /\ dl.attempts = Len(dl.trail) + (IF dl.fetch = "pending" THEN 1 ELSE 0)
    /\ dl.retryCount <= MaxRetries
    /\ \A i \in 1..Len(dl.trail) :
          i < dl.attempts => FailedAttempt(dl.trail[i])
    /\ \A i \in 1..Len(dl.trail) :
          (dl.trail[i] = "response" /\ dl.pc # "begin") =>
              /\ i = Len(dl.trail) /\ LoopLeft /\ dl.attempts = i
    /\ dl.signals = [i \in 1..dl.attempts |-> i]
    /\ dl.timers = dl.retryCount + (IF dl.pc = "begin" THEN 0 ELSE 1)
    /\ (/\ Len(dl.trail) = MaxRetries + 1
        /\ FailedAttempt(dl.trail[MaxRetries + 1])) => dl.pc = "thrown"
    /\ LoopLeft => (dl.fetch = "none" /\ dl.timer = "cleared")

\* C36: the fetch loop of the retrying download always comes to its end,
\* after at most three attempts, with the discipline above.
C36_RetryLoopTerminates ==
    /\ [](dl # NoInput => RetryDiscipline)
    /\ <>(dl # NoInput /\ LoopLeft)

\* C36 witness: three attempts were made, the first aborted by its timer,
\* the second failed, the third aborted by its timer, and the function
\* threw the timeout error.
C36_Witness ==
    /\ dl # NoInput /\ dl.pc = "thrown"
    /\ "trail" \in DOMAIN dl
    /\ dl.trail = <<"aborted", "thrown", "aborted">>
    /\ dl.signals = <<1, 2, 3>>
    /\ dl.error = RetryTimeoutMessage(dl.filename, MaxRetries)

\* C36 witness: a response that is not OK ended the loop at the first
\* attempt, and the function threw without another attempt.
C36_WitnessNotOk ==
    /\ dl # NoInput /\ dl.pc = "thrown"
    /\ "trail" \in DOMAIN dl
    /\ dl.trail = <<"response">>
    /\ dl.res = "not_ok"
    /\ dl.attempts = 1

=============================================================================
